---- MODULE Spec2Model ----
(***************************************************************************)
(* Stradl task tracker: the task/blocker/settings store and the request    *)
(* handlers of server/routes/tasks.ts, server/routes/blockers.ts and the   *)
(* settings route, with the helpers of server/task-logic.ts.               *)
(*                                                                         *)
(* Every handler reads the whole store, works on it and writes it back    *)
(* before it answers, so one handler is one atomic step.  Timestamps are   *)
(* minutes on an integer clock (the code keeps ISO strings of the same     *)
(* instants and compares them as Date values); a null timestamp is NoTime  *)
(* and a null task id is NoId.  A request body is a record holding only    *)
(* the fields the client sent, so "field !== undefined" is a DOMAIN test.  *)
(***************************************************************************)
EXTENDS Integers, Sequences, FiniteSets, TLC

VARIABLES tasks, blockers, settings, nextTaskId, nextBlockerId, now, lastOp, steps,
          updateInFlight, statusFile, children, files, script, hook

data == <<tasks, blockers, settings, nextTaskId, nextBlockerId>>
\* routes/update.ts: the module flag, the state held by update-status.json
\* ("missing" when there is no file) and the number of live self-update processes
updater == <<updateInFlight, statusFile, children>>
\* storage.ts: the data file and the two legacy data files, as the file system
\* holds them
Paths == { "appSupport", "projectData", "serverData" }
vars == <<tasks, blockers, settings, nextTaskId, nextBlockerId, now, lastOp, steps,
          updateInFlight, statusFile, children, files, script, hook>>

\* ---- bounds of the model ----
MaxTaskId == 2
MaxBlockerId == 2
MaxNow == 30
\* requests and clock ticks in one run
MaxSteps == 5
\* fetches of the useTasks hook that have not settled
MaxInFlight == 2
\* the latest clock value, in minutes, of the stores for staleness
StaleNow == 240
\* the latest clock value, in minutes, of the stores for the vacation nudge
MaxNudgeNow == 4500

\* ---- JavaScript values ----
NoTime == -1
NoId == 0
Null == "null"

Str(cs) == [type |-> "string", chars |-> cs]
Num(cs) == [type |-> "number", chars |-> cs]

\* !v for a string or a (non-zero) number
Falsy(v) == v.type = "string" /\ v.chars = <<>>

IsSpace(c) == c = " "

RECURSIVE TrimStart(_)
TrimStart(s) == IF s # <<>> /\ IsSpace(Head(s)) THEN TrimStart(Tail(s)) ELSE s

RECURSIVE TrimEnd(_)
TrimEnd(s) ==
  IF s # <<>> /\ IsSpace(s[Len(s)]) THEN TrimEnd(SubSeq(s, 1, Len(s) - 1)) ELSE s

Trim(s) == TrimEnd(TrimStart(s))

\* priority || null
PriorityOrNull(p) == IF p = "" \/ p = Null THEN Null ELSE p

\* a request body without fields
NoField == [x \in {} |-> TRUE]

Has(body, f) == f \in DOMAIN body

\* ---- storage.ts: the store ----
defaultSettings ==
  [ staleThresholdHours |-> 48,
    topN |-> 20,
    oneTimeOffsetHours |-> 0,
    oneTimeOffsetExpiresAt |-> NoTime,
    vacationPromptLastShownForUpdatedAt |-> NoTime,
    focusedTaskId |-> NoId ]

\* no update has been started
NoUpdate == updateInFlight = FALSE /\ statusFile = "missing" /\ children = 0

\* fs.existsSync(file) is false
Missing == [content |-> "none", isDeleted |-> FALSE, mtime |-> 0]

\* no data file has been written
NoFiles == files = [f \in Paths |-> Missing]

\* scripts/self-update.js is not running: no state object, nothing written
NoScript ==
  script = [pc |-> "none", state |-> [state |-> "none", step |-> "none", message |-> "none"],
            written |-> <<>>]

\* hooks/useTasks.ts is not mounted
NoHook == hook = [tab |-> "none", tasks |-> <<>>, loading |-> FALSE, pending |-> <<>>]

Init ==
  /\ tasks = <<>>
  /\ blockers = <<>>
  /\ settings = defaultSettings
  /\ nextTaskId = 1
  /\ nextBlockerId = 1
  /\ now = 0
  /\ lastOp = [op |-> "init", id |-> NoId, code |-> 0, req |-> NoField, wrote |-> FALSE]
  /\ steps = 0
  /\ NoUpdate
  /\ NoFiles
  /\ NoScript
  /\ NoHook

\* one request or clock tick of a run outside routes/update.ts
Step == steps < MaxSteps /\ steps' = steps + 1 /\ UNCHANGED <<updater, files, script, hook>>

\* one request to routes/update.ts or step of a self-update process
UpdaterStep == steps < MaxSteps /\ steps' = steps + 1 /\ UNCHANGED <<files, script, hook>>

\* one call of storage.ts
StorageStep == steps < MaxSteps /\ steps' = steps + 1 /\ UNCHANGED <<updater, script, hook>>

\* one step of a run of scripts/self-update.js
ScriptStep == UNCHANGED <<steps, files, hook>>

\* one event of the useTasks hook in the browser
HookStep == steps < MaxSteps /\ steps' = steps + 1 /\ UNCHANGED <<updater, files, script>>

Resp(op, id, code, req, wrote) ==
  [op |-> op, id |-> id, code |-> code, req |-> req, wrote |-> wrote]

\* ---- Array helpers ----
HasTaskIn(ts, id) == \E i \in DOMAIN ts : ts[i].id = id

\* data.tasks.findIndex(t => t.id === id): the first match
FindIndexIn(ts, id) ==
  CHOOSE i \in DOMAIN ts : ts[i].id = id /\ \A j \in DOMAIN ts : ts[j].id = id => i <= j

FindTaskIn(ts, id) == ts[FindIndexIn(ts, id)]

HasTask(id) == HasTaskIn(tasks, id)
FindTask(id) == FindTaskIn(tasks, id)

Splice(s, idx) == SubSeq(s, 1, idx - 1) \o SubSeq(s, idx + 1, Len(s))

\* ---- Array.prototype.slice and sort (filter is SelectSeq) ----
\* a slice index as JavaScript clamps it: negative counts from the end
SliceIndex(k, len) ==
  IF k < 0 THEN (IF len + k < 0 THEN 0 ELSE len + k) ELSE (IF k > len THEN len ELSE k)

slice(s, start, end) == SubSeq(s, SliceIndex(start, Len(s)) + 1, SliceIndex(end, Len(s)))

\* a comparator that compares one number and, when equal, the next one
LexLess(a, b) == \E k \in DOMAIN a : a[k] < b[k] /\ \A m \in 1 .. (k - 1) : a[m] = b[m]

\* the stable sort; keys[i] holds the numbers the comparator reads from s[i]:
\* s[i] comes before s[j] when its key is smaller, or when neither key is smaller
\* and i < j
sort(s, keys) ==
  LET n == Len(s)
      before(i, j) == \/ LexLess(keys[i], keys[j])
                      \/ ~LexLess(keys[j], keys[i]) /\ i < j
      pos(i) == Cardinality({ j \in 1 .. n : before(j, i) }) + 1
  IN [p \in 1 .. n |-> s[CHOOSE i \in 1 .. n : pos(i) = p]]

\* ---- task-logic.ts ----
PRIORITY_ORDER(p) == IF p = "P0" THEN 0 ELSE IF p = "P1" THEN 1 ELSE IF p = "P2" THEN 2 ELSE 99

\* mutant: a blocker whose date equals now is not yet due
ShouldUnblockStrictDate(b, ts, t) ==
  \/ b.blockedUntilDate # NoTime /\ b.blockedUntilDate < t
  \/ /\ b.blockedByTaskId # NoId
     /\ HasTaskIn(ts, b.blockedByTaskId)
     /\ FindTaskIn(ts, b.blockedByTaskId).completedAt # NoTime

\* mutant: a blocker is resolved as soon as its blocking task exists
ShouldUnblockAnyBlockingTask(b, ts, t) ==
  \/ b.blockedUntilDate # NoTime /\ b.blockedUntilDate <= t
  \/ /\ b.blockedByTaskId # NoId
     /\ HasTaskIn(ts, b.blockedByTaskId)

\* mutant: a blocker that names its own task is resolved by the pass
ShouldUnblockSelfReference(b, ts, t) ==
  \/ b.blockedUntilDate # NoTime /\ b.blockedUntilDate <= t
  \/ /\ b.blockedByTaskId # NoId
     /\ HasTaskIn(ts, b.blockedByTaskId)
     /\ FindTaskIn(ts, b.blockedByTaskId).completedAt # NoTime
  \/ b.blockedByTaskId = b.taskId

ShouldUnblock(b, ts, t) ==
  \/ b.blockedUntilDate # NoTime /\ b.blockedUntilDate <= t
  \/ /\ b.blockedByTaskId # NoId
     /\ HasTaskIn(ts, b.blockedByTaskId)
     /\ FindTaskIn(ts, b.blockedByTaskId).completedAt # NoTime

autoUnblock(bs, ts, t) ==
  [i \in DOMAIN bs |->
     IF ~bs[i].resolved /\ ShouldUnblock(bs[i], ts, t)
     THEN [bs[i] EXCEPT !.resolved = TRUE]
     ELSE bs[i]]

\* mutant: the pass does not skip blockers that are already resolved
autoUnblockChangedAnyDue(bs, ts, t) ==
  \E i \in DOMAIN bs : ShouldUnblock(bs[i], ts, t)

\* the value autoUnblock returns: the flag set whenever the loop resolves a blocker
autoUnblockChanged(bs, ts, t) ==
  \E i \in DOMAIN bs : ~bs[i].resolved /\ ShouldUnblock(bs[i], ts, t)

hasUnresolvedBlockers(taskId, bs) ==
  \E i \in DOMAIN bs : bs[i].taskId = taskId /\ ~bs[i].resolved

isTaskBlocked(taskId, bs) == hasUnresolvedBlockers(taskId, bs)

\* mutant: a task is still hidden at the minute its hide ends
isTaskHiddenNowInclusive(task, t) ==
  IF task.hiddenUntilAt = NoTime THEN FALSE ELSE task.hiddenUntilAt >= t

isTaskHiddenNow(task, t) ==
  IF task.hiddenUntilAt = NoTime THEN FALSE ELSE task.hiddenUntilAt > t

\* mutant: the ranking breaks ties inside a priority by updatedAt
getPrioritizedTasksByUpdate(ts, bs, t) ==
  LET picked == SelectSeq(ts, LAMBDA x : /\ x.priority # Null
                                         /\ ~x.isArchived
                                         /\ x.completedAt = NoTime
                                         /\ ~isTaskBlocked(x.id, bs)
                                         /\ ~isTaskHiddenNow(x, t))
  IN sort(picked, [i \in DOMAIN picked |-> <<PRIORITY_ORDER(picked[i].priority), picked[i].updatedAt>>])

getPrioritizedTasks(ts, bs, t) ==
  LET picked == SelectSeq(ts, LAMBDA x : /\ x.priority # Null
                                         /\ ~x.isArchived
                                         /\ x.completedAt = NoTime
                                         /\ ~isTaskBlocked(x.id, bs)
                                         /\ ~isTaskHiddenNow(x, t))
  IN sort(picked, [i \in DOMAIN picked |-> <<PRIORITY_ORDER(picked[i].priority), picked[i].createdAt>>])

\* ---- utils/staleness.ts ----
\* the clock counts minutes; the code divides milliseconds by 3600000
HOUR == 60

\* mutant: an offset that expires exactly now is no longer applied
isStaleStrictExpiry(updatedAt, st, t) ==
  LET hasActiveOneTimeOffset ==
        st.oneTimeOffsetExpiresAt # NoTime /\ st.oneTimeOffsetExpiresAt > t
      effectiveOneTimeOffsetHours ==
        IF hasActiveOneTimeOffset THEN st.oneTimeOffsetHours ELSE 0
  IN (t - updatedAt) > (st.staleThresholdHours + effectiveOneTimeOffsetHours) * HOUR

\* mutant: the offset is applied once its expiry has passed instead of until then
isStaleOffsetAfterExpiry(updatedAt, st, t) ==
  LET hasActiveOneTimeOffset ==
        st.oneTimeOffsetExpiresAt # NoTime /\ st.oneTimeOffsetExpiresAt <= t
      effectiveOneTimeOffsetHours ==
        IF hasActiveOneTimeOffset THEN st.oneTimeOffsetHours ELSE 0
  IN (t - updatedAt) > (st.staleThresholdHours + effectiveOneTimeOffsetHours) * HOUR

\* elapsed > threshold, with elapsed = (now - updatedAt) / HOUR, multiplied out
isStale(updatedAt, st, t) ==
  LET hasActiveOneTimeOffset ==
        st.oneTimeOffsetExpiresAt # NoTime /\ st.oneTimeOffsetExpiresAt >= t
      effectiveOneTimeOffsetHours ==
        IF hasActiveOneTimeOffset THEN st.oneTimeOffsetHours ELSE 0
  IN (t - updatedAt) > (st.staleThresholdHours + effectiveOneTimeOffsetHours) * HOUR

\* ---- utils/vacationNudge ----
\* null
NoRecommendation == [present |-> FALSE]

\* tasks.filter(t => t.completedAt == null && !t.isArchived && !t.isDeleted);
\* a deleted task is not in the store
activeTasks(ts) == SelectSeq(ts, LAMBDA x : x.completedAt = NoTime /\ ~x.isArchived)

\* the updatedAt of the first task with the strictly greatest timestamp
mostRecentUpdatedAt(ts) ==
  LET act == activeTasks(ts)
  IN CHOOSE u \in { act[i].updatedAt : i \in DOMAIN act } :
       \A i \in DOMAIN act : act[i].updatedAt <= u

\* as getVacationNudgeRecommendation, with the days rounded up
getVacationNudgeRecommendationCeil(ts, st, t) ==
  IF activeTasks(ts) = <<>> THEN NoRecommendation
  ELSE LET anchor == mostRecentUpdatedAt(ts)
           inactivityMinutes == t - anchor
           hasActiveOneTimeOffset ==
             st.oneTimeOffsetExpiresAt # NoTime /\ st.oneTimeOffsetExpiresAt > t
           days == (inactivityMinutes + 24 * HOUR - 1) \div (24 * HOUR)
           suggestedDays == IF days > 1 THEN days ELSE 1
       IN IF inactivityMinutes <= 24 * HOUR THEN NoRecommendation
          ELSE IF st.vacationPromptLastShownForUpdatedAt = anchor THEN NoRecommendation
          ELSE IF hasActiveOneTimeOffset THEN NoRecommendation
          ELSE [ present |-> TRUE,
                 mostRecentActiveUpdatedAt |-> anchor,
                 inactivityMinutes |-> inactivityMinutes,
                 inactivityDays |-> suggestedDays,
                 suggestedDays |-> suggestedDays ]

\* inactivityHours = (nowMs - mostRecentUpdatedMs) / 3600000 is kept in minutes:
\* inactivityHours <= 24 is inactivityMinutes <= 24 * HOUR, and
\* Math.floor(inactivityHours / 24) is inactivityMinutes \div (24 * HOUR)
getVacationNudgeRecommendation(ts, st, t) ==
  IF activeTasks(ts) = <<>> THEN NoRecommendation
  ELSE LET anchor == mostRecentUpdatedAt(ts)
           inactivityMinutes == t - anchor
           hasActiveOneTimeOffset ==
             st.oneTimeOffsetExpiresAt # NoTime /\ st.oneTimeOffsetExpiresAt > t
           days == inactivityMinutes \div (24 * HOUR)
           suggestedDays == IF days > 1 THEN days ELSE 1
       IN IF inactivityMinutes <= 24 * HOUR THEN NoRecommendation
          ELSE IF st.vacationPromptLastShownForUpdatedAt = anchor THEN NoRecommendation
          ELSE IF hasActiveOneTimeOffset THEN NoRecommendation
          ELSE [ present |-> TRUE,
                 mostRecentActiveUpdatedAt |-> anchor,
                 inactivityMinutes |-> inactivityMinutes,
                 inactivityDays |-> suggestedDays,
                 suggestedDays |-> suggestedDays ]

\* ---- routes/tasks.ts helpers ----
ALLOWED_HIDE_DURATIONS == {15, 30, 60, 120, 240}

clearFocusForTask(s, taskId) ==
  IF s.focusedTaskId = taskId THEN [s EXCEPT !.focusedTaskId = NoId] ELSE s

isTaskActiveForFocus(task, bs, t) ==
  /\ ~task.isArchived
  /\ task.completedAt = NoTime
  /\ ~isTaskBlocked(task.id, bs)
  /\ ~isTaskHiddenNow(task, t)

clearInvalidFocus(s, ts, bs, t) ==
  IF s.focusedTaskId = NoId THEN s
  ELSE IF \/ ~HasTaskIn(ts, s.focusedTaskId)
          \/ ~isTaskActiveForFocus(FindTaskIn(ts, s.focusedTaskId), bs, t)
       THEN [s EXCEPT !.focusedTaskId = NoId]
       ELSE s

\* mutant: the loop resolves the blockers of the task instead of its dependents
ResolveDependentsOwn(bs, id) ==
  [i \in DOMAIN bs |->
     IF bs[i].taskId = id /\ ~bs[i].resolved
     THEN [bs[i] EXCEPT !.resolved = TRUE]
     ELSE bs[i]]

\* the loop of PUT /tasks/:id (archiving) and of POST /tasks/:id/complete
ResolveDependents(bs, id) ==
  [i \in DOMAIN bs |->
     IF bs[i].blockedByTaskId = id /\ ~bs[i].resolved
     THEN [bs[i] EXCEPT !.resolved = TRUE]
     ELSE bs[i]]

\* mutant: the filter keeps the blockers that only name the task as blocking task
RECURSIVE FilterBlockersOwnOnly(_, _)
FilterBlockersOwnOnly(bs, id) ==
  IF bs = <<>> THEN <<>>
  ELSE IF Head(bs).taskId # id
       THEN <<Head(bs)>> \o FilterBlockersOwnOnly(Tail(bs), id)
       ELSE FilterBlockersOwnOnly(Tail(bs), id)

\* mutant: the filter keeps the blockers attached to the deleted task
RECURSIVE FilterBlockersDependentsOnly(_, _)
FilterBlockersDependentsOnly(bs, id) ==
  IF bs = <<>> THEN <<>>
  ELSE IF Head(bs).blockedByTaskId # id
       THEN <<Head(bs)>> \o FilterBlockersDependentsOnly(Tail(bs), id)
       ELSE FilterBlockersDependentsOnly(Tail(bs), id)

\* data.blockers.filter(b => b.taskId !== id && b.blockedByTaskId !== id)
RECURSIVE FilterBlockers(_, _)
FilterBlockers(bs, id) ==
  IF bs = <<>> THEN <<>>
  ELSE IF Head(bs).taskId # id /\ Head(bs).blockedByTaskId # id
       THEN <<Head(bs)>> \o FilterBlockers(Tail(bs), id)
       ELSE FilterBlockers(Tail(bs), id)

\* ---- the views of GET /api/tasks, computed from the store after the two passes ----
\* mutant: the active view is listed as ranked, without the second sort
tasksTabRankOrder(ts, bs, st, t) ==
  slice(getPrioritizedTasks(ts, bs, t), 0, st.topN)

tasksTab(ts, bs, st, t) ==
  LET picked == slice(getPrioritizedTasks(ts, bs, t), 0, st.topN)
  IN sort(picked, [i \in DOMAIN picked |-> <<PRIORITY_ORDER(picked[i].priority), picked[i].updatedAt>>])

\* mutant: the backlog starts one task after the end of the active view
backlogTabSkippingOne(ts, bs, st, t) ==
  LET picked == slice(getPrioritizedTasks(ts, bs, t), st.topN + 1, Len(ts))
  IN sort(picked, [i \in DOMAIN picked |-> <<PRIORITY_ORDER(picked[i].priority), picked[i].updatedAt>>])

\* mutant: the backlog is listed as ranked, without the second sort
backlogTabRankOrder(ts, bs, st, t) ==
  slice(getPrioritizedTasks(ts, bs, t), st.topN, Len(ts))

backlogTab(ts, bs, st, t) ==
  LET picked == slice(getPrioritizedTasks(ts, bs, t), st.topN, Len(ts))
  IN sort(picked, [i \in DOMAIN picked |-> <<PRIORITY_ORDER(picked[i].priority), picked[i].updatedAt>>])

\* mutant: the ideas view does not check the archive flag
ideasTabWithArchived(ts, bs, st, t) ==
  LET picked == SelectSeq(ts, LAMBDA x : /\ x.priority = Null
                                         /\ x.completedAt = NoTime
                                         /\ ~isTaskHiddenNow(x, t))
  IN sort(picked, [i \in DOMAIN picked |-> <<picked[i].updatedAt>>])

\* mutant: the ideas view leaves out blocked tasks
ideasTabUnblockedOnly(ts, bs, st, t) ==
  LET picked == SelectSeq(ts, LAMBDA x : /\ x.priority = Null
                                         /\ ~x.isArchived
                                         /\ x.completedAt = NoTime
                                         /\ ~isTaskBlocked(x.id, bs)
                                         /\ ~isTaskHiddenNow(x, t))
  IN sort(picked, [i \in DOMAIN picked |-> <<picked[i].updatedAt>>])

ideasTab(ts, bs, st, t) ==
  LET picked == SelectSeq(ts, LAMBDA x : /\ x.priority = Null
                                         /\ ~x.isArchived
                                         /\ x.completedAt = NoTime
                                         /\ ~isTaskHiddenNow(x, t))
  IN sort(picked, [i \in DOMAIN picked |-> <<picked[i].updatedAt>>])

\* mutant: the blocked view leaves out tasks that are hidden now
blockedTabNotHidden(ts, bs, st, t) ==
  LET picked == SelectSeq(ts, LAMBDA x : /\ ~x.isArchived
                                         /\ x.completedAt = NoTime
                                         /\ isTaskBlocked(x.id, bs)
                                         /\ ~isTaskHiddenNow(x, t))
  IN sort(picked, [i \in DOMAIN picked |-> <<picked[i].updatedAt>>])

blockedTab(ts, bs, st, t) ==
  LET picked == SelectSeq(ts, LAMBDA x : /\ ~x.isArchived
                                         /\ x.completedAt = NoTime
                                         /\ isTaskBlocked(x.id, bs))
  IN sort(picked, [i \in DOMAIN picked |-> <<picked[i].updatedAt>>])

\* a missing hiddenUntilAt sorts as +Infinity
hiddenTab(ts, bs, st, t) ==
  LET picked == SelectSeq(ts, LAMBDA x : /\ ~x.isArchived
                                         /\ x.completedAt = NoTime
                                         /\ ~isTaskBlocked(x.id, bs)
                                         /\ isTaskHiddenNow(x, t))
  IN sort(picked, [i \in DOMAIN picked |->
             IF picked[i].hiddenUntilAt = NoTime
             THEN <<1, 0, picked[i].updatedAt>>
             ELSE <<0, picked[i].hiddenUntilAt, picked[i].updatedAt>>])

completedTab(ts, bs, st, t) ==
  LET picked == SelectSeq(ts, LAMBDA x : x.completedAt # NoTime /\ ~x.isArchived)
  IN sort(picked, [i \in DOMAIN picked |-> <<0 - picked[i].completedAt>>])

archiveTab(ts, bs, st, t) ==
  LET picked == SelectSeq(ts, LAMBDA x : x.isArchived)
  IN sort(picked, [i \in DOMAIN picked |-> <<0 - picked[i].updatedAt>>])

\* switch (tab)
filtered(tab, ts, bs, st, t) ==
  CASE tab = "tasks" -> tasksTab(ts, bs, st, t)
    [] tab = "backlog" -> backlogTab(ts, bs, st, t)
    [] tab = "ideas" -> ideasTab(ts, bs, st, t)
    [] tab = "blocked" -> blockedTab(ts, bs, st, t)
    [] tab = "hidden" -> hiddenTab(ts, bs, st, t)
    [] tab = "completed" -> completedTab(ts, bs, st, t)
    [] tab = "archive" -> archiveTab(ts, bs, st, t)
    [] OTHER -> <<>>

\* ---- routes/tasks.ts handlers ----

\* mutant: the store is written on every query
GetTasksWriting(tab) ==
  /\ Step
  /\ LET bs == autoUnblock(blockers, tasks, now)
         st == clearInvalidFocus(settings, tasks, bs, now)
     IN /\ blockers' = bs
        /\ settings' = st
        /\ lastOp' = Resp("query", NoId, 200, NoField, TRUE)
        /\ UNCHANGED <<tasks, nextTaskId, nextBlockerId, now>>

\* GET /api/tasks?tab=...
GetTasks(tab) ==
  /\ Step
  /\ LET bs == autoUnblock(blockers, tasks, now)
         st == clearInvalidFocus(settings, tasks, bs, now)
     IN /\ blockers' = bs
        /\ settings' = st
        /\ lastOp' = Resp("query", NoId, 200, NoField, bs # blockers \/ st # settings)
        /\ UNCHANGED <<tasks, nextTaskId, nextBlockerId, now>>

\* mutant: a new task takes the first id above the stored ones
CreateTaskReusingId(body) ==
  /\ Step
  /\ IF ~Has(body, "title") \/ Falsy(body.title) \/ body.title.type # "string"
     THEN /\ lastOp' = Resp("create", NoId, 400, body, FALSE)
          /\ UNCHANGED <<data, now>>
     ELSE /\ nextTaskId <= MaxTaskId
          /\ tasks' = Append(tasks,
               [ id |-> Len(tasks) + 1,
                 title |-> Trim(body.title.chars),
                 status |-> IF Has(body, "status") /\ body.status.type = "string"
                            THEN Str(Trim(body.status.chars)) ELSE Str(<<>>),
                 priority |-> IF Has(body, "priority") THEN PriorityOrNull(body.priority) ELSE Null,
                 createdAt |-> now,
                 updatedAt |-> now,
                 completedAt |-> NoTime,
                 isArchived |-> FALSE,
                 hiddenUntilAt |-> NoTime ])
          /\ nextTaskId' = nextTaskId + 1
          /\ lastOp' = Resp("create", Len(tasks) + 1, 201, body, TRUE)
          /\ UNCHANGED <<blockers, settings, nextBlockerId, now>>

\* POST /api/tasks
CreateTask(body) ==
  /\ Step
  /\ IF ~Has(body, "title") \/ Falsy(body.title) \/ body.title.type # "string"
     THEN /\ lastOp' = Resp("create", NoId, 400, body, FALSE)
          /\ UNCHANGED <<data, now>>
     ELSE /\ nextTaskId <= MaxTaskId
          /\ tasks' = Append(tasks,
               [ id |-> nextTaskId,
                 title |-> Trim(body.title.chars),
                 status |-> IF Has(body, "status") /\ body.status.type = "string"
                            THEN Str(Trim(body.status.chars)) ELSE Str(<<>>),
                 priority |-> IF Has(body, "priority") THEN PriorityOrNull(body.priority) ELSE Null,
                 createdAt |-> now,
                 updatedAt |-> now,
                 completedAt |-> NoTime,
                 isArchived |-> FALSE,
                 hiddenUntilAt |-> NoTime ])
          /\ nextTaskId' = nextTaskId + 1
          /\ lastOp' = Resp("create", nextTaskId, 201, body, TRUE)
          /\ UNCHANGED <<blockers, settings, nextBlockerId, now>>

\* mutant: an update refreshes updatedAt only when it changes a field
UpdatedTaskNoTouch(t0, body, t) ==
  LET t1 == IF Has(body, "title") THEN [t0 EXCEPT !.title = Trim(body.title.chars)] ELSE t0
      t2 == IF Has(body, "status")
            THEN [t1 EXCEPT !.status = IF body.status.type = "string"
                                       THEN Str(Trim(body.status.chars)) ELSE body.status]
            ELSE t1
      t3 == IF Has(body, "priority")
            THEN [t2 EXCEPT !.priority = PriorityOrNull(body.priority)] ELSE t2
      t4 == IF Has(body, "isArchived") THEN [t3 EXCEPT !.isArchived = body.isArchived] ELSE t3
      t5 == IF Has(body, "isArchived") /\ body.isArchived
            THEN [t4 EXCEPT !.hiddenUntilAt = NoTime] ELSE t4
  IN IF t5 = t0 THEN t0 ELSE [t5 EXCEPT !.updatedAt = t]

\* mutant: an update stamps createdAt together with updatedAt
UpdatedTaskRestamps(t0, body, t) ==
  LET t1 == IF Has(body, "title") THEN [t0 EXCEPT !.title = Trim(body.title.chars)] ELSE t0
      t2 == IF Has(body, "status")
            THEN [t1 EXCEPT !.status = IF body.status.type = "string"
                                       THEN Str(Trim(body.status.chars)) ELSE body.status]
            ELSE t1
      t3 == IF Has(body, "priority")
            THEN [t2 EXCEPT !.priority = PriorityOrNull(body.priority)] ELSE t2
      t4 == IF Has(body, "isArchived") THEN [t3 EXCEPT !.isArchived = body.isArchived] ELSE t3
      t5 == IF Has(body, "isArchived") /\ body.isArchived
            THEN [t4 EXCEPT !.hiddenUntilAt = NoTime] ELSE t4
  IN [t5 EXCEPT !.updatedAt = t, !.createdAt = t]

\* the field assignments of PUT /api/tasks/:id, in the order of the code
UpdatedTask(t0, body, t) ==
  LET t1 == IF Has(body, "title") THEN [t0 EXCEPT !.title = Trim(body.title.chars)] ELSE t0
      t2 == IF Has(body, "status")
            THEN [t1 EXCEPT !.status = IF body.status.type = "string"
                                       THEN Str(Trim(body.status.chars)) ELSE body.status]
            ELSE t1
      t3 == IF Has(body, "priority")
            THEN [t2 EXCEPT !.priority = PriorityOrNull(body.priority)] ELSE t2
      t4 == IF Has(body, "isArchived") THEN [t3 EXCEPT !.isArchived = body.isArchived] ELSE t3
      t5 == IF Has(body, "isArchived") /\ body.isArchived
            THEN [t4 EXCEPT !.hiddenUntilAt = NoTime] ELSE t4
  IN [t5 EXCEPT !.updatedAt = t]

\* PUT /api/tasks/:id
UpdateTask(id, body) ==
  /\ Step
  /\ IF ~HasTask(id)
     THEN /\ lastOp' = Resp("update", id, 404, body, FALSE)
          /\ UNCHANGED <<data, now>>
     ELSE IF Has(body, "title") /\ body.title.type # "string"
     THEN \* title.trim is not a function: the handler throws before writeData
          /\ lastOp' = Resp("update", id, 500, body, FALSE)
          /\ UNCHANGED <<data, now>>
     ELSE LET archiving == Has(body, "isArchived") /\ body.isArchived
          IN /\ tasks' = [tasks EXCEPT ![FindIndexIn(tasks, id)] = UpdatedTask(@, body, now)]
             /\ settings' = IF archiving THEN clearFocusForTask(settings, id) ELSE settings
             /\ blockers' = IF archiving THEN ResolveDependents(blockers, id) ELSE blockers
             /\ lastOp' = Resp("update", id, 200, body, TRUE)
             /\ UNCHANGED <<nextTaskId, nextBlockerId, now>>

\* POST /api/tasks/:id/complete
CompleteTask(id) ==
  /\ Step
  /\ IF ~HasTask(id)
     THEN /\ lastOp' = Resp("complete", id, 404, NoField, FALSE)
          /\ UNCHANGED <<data, now>>
     ELSE /\ tasks' = [tasks EXCEPT ![FindIndexIn(tasks, id)] =
                         [@ EXCEPT !.completedAt = now, !.updatedAt = now]]
          /\ blockers' = ResolveDependents(blockers, id)
          /\ settings' = clearFocusForTask(settings, id)
          /\ lastOp' = Resp("complete", id, 200, NoField, TRUE)
          /\ UNCHANGED <<nextTaskId, nextBlockerId, now>>

\* mutant: reopening a task reopens the blockers that depend on it
UncompleteTaskReopening(id) ==
  /\ Step
  /\ IF ~HasTask(id)
     THEN /\ lastOp' = Resp("uncomplete", id, 404, NoField, FALSE)
          /\ UNCHANGED <<data, now>>
     ELSE /\ tasks' = [tasks EXCEPT ![FindIndexIn(tasks, id)] =
                         [@ EXCEPT !.completedAt = NoTime, !.updatedAt = now]]
          /\ blockers' = [i \in DOMAIN blockers |->
                            IF blockers[i].blockedByTaskId = id
                            THEN [blockers[i] EXCEPT !.resolved = FALSE]
                            ELSE blockers[i]]
          /\ lastOp' = Resp("uncomplete", id, 200, NoField, TRUE)
          /\ UNCHANGED <<settings, nextTaskId, nextBlockerId, now>>

\* POST /api/tasks/:id/uncomplete
UncompleteTask(id) ==
  /\ Step
  /\ IF ~HasTask(id)
     THEN /\ lastOp' = Resp("uncomplete", id, 404, NoField, FALSE)
          /\ UNCHANGED <<data, now>>
     ELSE /\ tasks' = [tasks EXCEPT ![FindIndexIn(tasks, id)] =
                         [@ EXCEPT !.completedAt = NoTime, !.updatedAt = now]]
          /\ lastOp' = Resp("uncomplete", id, 200, NoField, TRUE)
          /\ UNCHANGED <<blockers, settings, nextTaskId, nextBlockerId, now>>

\* mutant: a task that is hidden now can be hidden again
HideTaskAgain(id, body) ==
  /\ Step
  /\ IF ~HasTask(id)
     THEN /\ lastOp' = Resp("hide", id, 404, body, FALSE)
          /\ UNCHANGED <<data, now>>
     ELSE IF ~Has(body, "durationMinutes") \/ body.durationMinutes \notin ALLOWED_HIDE_DURATIONS
     THEN /\ lastOp' = Resp("hide", id, 400, body, FALSE)
          /\ UNCHANGED <<data, now>>
     ELSE LET task == FindTask(id)
              isActivePrioritizedTask ==
                /\ ~task.isArchived
                /\ task.completedAt = NoTime
                /\ task.priority # Null
                /\ ~isTaskBlocked(task.id, blockers)
          IN IF ~isActivePrioritizedTask
             THEN /\ lastOp' = Resp("hide", id, 400, body, FALSE)
                  /\ UNCHANGED <<data, now>>
             ELSE /\ tasks' = [tasks EXCEPT ![FindIndexIn(tasks, id)] =
                                 [@ EXCEPT !.hiddenUntilAt = now + body.durationMinutes]]
                  /\ settings' = clearFocusForTask(settings, id)
                  /\ lastOp' = Resp("hide", id, 200, body, TRUE)
                  /\ UNCHANGED <<blockers, nextTaskId, nextBlockerId, now>>

\* POST /api/tasks/:id/hide
HideTask(id, body) ==
  /\ Step
  /\ IF ~HasTask(id)
     THEN /\ lastOp' = Resp("hide", id, 404, body, FALSE)
          /\ UNCHANGED <<data, now>>
     ELSE IF ~Has(body, "durationMinutes") \/ body.durationMinutes \notin ALLOWED_HIDE_DURATIONS
     THEN /\ lastOp' = Resp("hide", id, 400, body, FALSE)
          /\ UNCHANGED <<data, now>>
     ELSE LET task == FindTask(id)
              isActivePrioritizedTask ==
                /\ ~task.isArchived
                /\ task.completedAt = NoTime
                /\ task.priority # Null
                /\ ~isTaskBlocked(task.id, blockers)
                /\ ~isTaskHiddenNow(task, now)
          IN IF ~isActivePrioritizedTask
             THEN /\ lastOp' = Resp("hide", id, 400, body, FALSE)
                  /\ UNCHANGED <<data, now>>
             ELSE /\ tasks' = [tasks EXCEPT ![FindIndexIn(tasks, id)] =
                                 [@ EXCEPT !.hiddenUntilAt = now + body.durationMinutes]]
                  /\ settings' = clearFocusForTask(settings, id)
                  /\ lastOp' = Resp("hide", id, 200, body, TRUE)
                  /\ UNCHANGED <<blockers, nextTaskId, nextBlockerId, now>>

\* POST /api/tasks/:id/unhide
UnhideTask(id) ==
  /\ Step
  /\ IF ~HasTask(id)
     THEN /\ lastOp' = Resp("unhide", id, 404, NoField, FALSE)
          /\ UNCHANGED <<data, now>>
     ELSE /\ tasks' = [tasks EXCEPT ![FindIndexIn(tasks, id)] = [@ EXCEPT !.hiddenUntilAt = NoTime]]
          /\ lastOp' = Resp("unhide", id, 200, NoField, TRUE)
          /\ UNCHANGED <<blockers, settings, nextTaskId, nextBlockerId, now>>

\* mutant: the focus is stored before the task is found eligible
FocusTaskEager(id) ==
  /\ Step
  /\ IF ~HasTask(id)
     THEN /\ lastOp' = Resp("focus", id, 404, NoField, FALSE)
          /\ UNCHANGED <<data, now>>
     ELSE /\ settings' = [settings EXCEPT !.focusedTaskId = id]
          /\ lastOp' = IF ~isTaskActiveForFocus(FindTask(id), blockers, now)
                       THEN Resp("focus", id, 400, NoField, FALSE)
                       ELSE Resp("focus", id, 200, NoField, TRUE)
          /\ UNCHANGED <<tasks, blockers, nextTaskId, nextBlockerId, now>>

\* mutant: a focus that is already set is kept
FocusTaskIfFree(id) ==
  /\ Step
  /\ IF ~HasTask(id)
     THEN /\ lastOp' = Resp("focus", id, 404, NoField, FALSE)
          /\ UNCHANGED <<data, now>>
     ELSE IF ~isTaskActiveForFocus(FindTask(id), blockers, now)
     THEN /\ lastOp' = Resp("focus", id, 400, NoField, FALSE)
          /\ UNCHANGED <<data, now>>
     ELSE /\ settings' = IF settings.focusedTaskId = NoId
                         THEN [settings EXCEPT !.focusedTaskId = id]
                         ELSE settings
          /\ lastOp' = Resp("focus", id, 200, NoField, TRUE)
          /\ UNCHANGED <<tasks, blockers, nextTaskId, nextBlockerId, now>>

\* POST /api/tasks/:id/focus
FocusTask(id) ==
  /\ Step
  /\ IF ~HasTask(id)
     THEN /\ lastOp' = Resp("focus", id, 404, NoField, FALSE)
          /\ UNCHANGED <<data, now>>
     ELSE IF ~isTaskActiveForFocus(FindTask(id), blockers, now)
     THEN /\ lastOp' = Resp("focus", id, 400, NoField, FALSE)
          /\ UNCHANGED <<data, now>>
     ELSE /\ settings' = [settings EXCEPT !.focusedTaskId = id]
          /\ lastOp' = Resp("focus", id, 200, NoField, TRUE)
          /\ UNCHANGED <<tasks, blockers, nextTaskId, nextBlockerId, now>>

\* POST /api/tasks/focus/clear
ClearFocus ==
  /\ Step
  /\ /\ settings' = [settings EXCEPT !.focusedTaskId = NoId]
     /\ lastOp' = Resp("clearFocus", NoId, 200, NoField, TRUE)
     /\ UNCHANGED <<tasks, blockers, nextTaskId, nextBlockerId, now>>

\* DELETE /api/tasks/:id
DeleteTask(id) ==
  /\ Step
  /\ IF ~HasTask(id)
     THEN /\ lastOp' = Resp("delete", id, 404, NoField, FALSE)
          /\ UNCHANGED <<data, now>>
     ELSE /\ settings' = clearFocusForTask(settings, id)
          /\ tasks' = Splice(tasks, FindIndexIn(tasks, id))
          /\ blockers' = FilterBlockers(blockers, id)
          /\ lastOp' = Resp("delete", id, 204, NoField, TRUE)
          /\ UNCHANGED <<nextTaskId, nextBlockerId, now>>

\* ---- routes/blockers.ts handlers ----

\* POST /api/tasks/:id/blockers
AddBlocker(taskId, body) ==
  /\ Step
  /\ IF ~HasTask(taskId)
     THEN /\ lastOp' = Resp("addBlocker", taskId, 404, body, FALSE)
          /\ UNCHANGED <<data, now>>
     ELSE /\ nextBlockerId <= MaxBlockerId
          /\ blockers' = Append(blockers,
               [ id |-> nextBlockerId,
                 taskId |-> taskId,
                 blockedByTaskId |-> IF Has(body, "blockedByTaskId") THEN body.blockedByTaskId ELSE NoId,
                 blockedUntilDate |-> IF Has(body, "blockedUntilDate") THEN body.blockedUntilDate ELSE NoTime,
                 resolved |-> FALSE ])
          /\ nextBlockerId' = nextBlockerId + 1
          /\ lastOp' = Resp("addBlocker", taskId, 201, body, TRUE)
          /\ UNCHANGED <<tasks, settings, nextTaskId, now>>

HasBlocker(id) == \E i \in DOMAIN blockers : blockers[i].id = id

\* DELETE /api/blockers/:id
RemoveBlocker(id) ==
  /\ Step
  /\ IF ~HasBlocker(id)
     THEN /\ lastOp' = Resp("removeBlocker", id, 404, NoField, FALSE)
          /\ UNCHANGED <<data, now>>
     ELSE /\ blockers' = Splice(blockers, FindIndexIn(blockers, id))
          /\ lastOp' = Resp("removeBlocker", id, 204, NoField, TRUE)
          /\ UNCHANGED <<tasks, settings, nextTaskId, nextBlockerId, now>>

\* ---- storage.ts: the settings part of normalizeData ----
\* typeof v === 'number'
IsNumber(v) == v \in Int

\* a number is kept whatever its value, anything else becomes the default; the
\* nullable timestamps are kept, and so is focusedTaskId, which the task routes
\* read from data.settings
normalizeSettings(incoming) ==
  [incoming EXCEPT
     !.staleThresholdHours = IF IsNumber(@) THEN @ ELSE defaultSettings.staleThresholdHours,
     !.topN = IF IsNumber(@) THEN @ ELSE defaultSettings.topN,
     !.oneTimeOffsetHours = IF IsNumber(@) THEN @ ELSE defaultSettings.oneTimeOffsetHours]

\* ---- storage.ts: the data file ----
\* a file holds the name of the store that was written to it and whether one of
\* its tasks still carries the isDeleted key; a file written by the server is
\* newer than every file the run starts with
Written(content, isDeleted) == [content |-> content, isDeleted |-> isDeleted, mtime |-> 3]

existsSync(fs, file) == fs[file] # Missing

\* STRADL_DATA_DIR if set, else Application Support on darwin and <project>/data
\* elsewhere; the legacy files are <project>/data and <project>/server/data
resolveStoragePaths(env, platform) ==
  LET configuredDataDir == env.STRADL_DATA_DIR
      dataDir == IF configuredDataDir # "" THEN configuredDataDir
                 ELSE IF platform = "darwin" THEN "appSupport" ELSE "projectData"
  IN [dataFile |-> dataDir, legacyDataFiles |-> <<"projectData", "serverData">>]

\* mutant: the first legacy file that exists, whatever its age
pickFirstLegacyDataFile(fs, legacyDataFiles) ==
  LET candidates == SelectSeq(legacyDataFiles, LAMBDA f : existsSync(fs, f))
  IN IF candidates = <<>> THEN "null" ELSE candidates[1]

\* the existing legacy files sorted by b.mtimeMs - a.mtimeMs, first one or null
pickLatestLegacyDataFile(fs, legacyDataFiles) ==
  LET candidates == SelectSeq(legacyDataFiles, LAMBDA f : existsSync(fs, f))
      sorted == sort(candidates, [i \in DOMAIN candidates |-> <<0 - fs[candidates[i]].mtime>>])
  IN IF candidates = <<>> THEN "null" ELSE sorted[1]

ensureDataFile(fs, paths) ==
  IF existsSync(fs, paths.dataFile) THEN fs
  ELSE LET sourceFile == pickLatestLegacyDataFile(fs, paths.legacyDataFiles)
       IN IF sourceFile # "null" /\ sourceFile # paths.dataFile
          THEN [fs EXCEPT ![paths.dataFile] =
                  Written(fs[sourceFile].content, fs[sourceFile].isDeleted)]
          ELSE [fs EXCEPT ![paths.dataFile] = Written("default", FALSE)]

\* normalizeData, the loop over the tasks: tasks with isDeleted become archived,
\* the key is removed and the data file is written again
normalizeFile(fs, dataFile) ==
  IF fs[dataFile].isDeleted
  THEN [fs EXCEPT ![dataFile] = Written(fs[dataFile].content, FALSE)]
  ELSE fs

\* readData() = readDataFromPaths(resolveStoragePaths()); the data it returns are
\* kept in the record of the call
ReadData(env, platform) ==
  /\ StorageStep
  /\ LET paths == resolveStoragePaths(env, platform)
         ensured == ensureDataFile(files, paths)
     IN /\ files' = normalizeFile(ensured, paths.dataFile)
        /\ lastOp' = Resp("readData", NoId, 0,
                          [dataFile |-> paths.dataFile,
                           content |-> ensured[paths.dataFile].content,
                           isDeleted |-> FALSE],
                          files' # files)
        /\ UNCHANGED <<data, now>>

\* writeData(data) = writeDataToPaths(data, resolveStoragePaths())
WriteData(env, platform) ==
  /\ StorageStep
  /\ LET paths == resolveStoragePaths(env, platform)
     IN /\ files' = [files EXCEPT ![paths.dataFile] = Written("written", FALSE)]
        /\ lastOp' = Resp("writeData", NoId, 0, [dataFile |-> paths.dataFile], TRUE)
        /\ UNCHANGED <<data, now>>

\* ---- routes/settings.ts handlers ----

\* GET /api/settings: answers the settings as readData returns them
GetSettings ==
  /\ Step
  /\ /\ lastOp' = Resp("getSettings", NoId, 200, normalizeSettings(settings), FALSE)
     /\ UNCHANGED <<data, now>>


\* PUT /api/settings: every known field of the body is stored as sent
PutSettings(body) ==
  /\ Step
  /\ /\ settings' = [f \in DOMAIN settings |-> IF Has(body, f) THEN body[f] ELSE settings[f]]
     /\ lastOp' = Resp("putSettings", NoId, 200, body, TRUE)
     /\ UNCHANGED <<tasks, blockers, nextTaskId, nextBlockerId, now>>

\* ---- routes/update.ts ----
isSelfUpdateEnabled(env) == env.STRADL_ENABLE_SELF_UPDATE = "true"

isLoopbackAddress(address) == address \in { "127.0.0.1", "::1", "::ffff:127.0.0.1" }

isLocalRequest(req) == isLoopbackAddress(req.ip) \/ isLoopbackAddress(req.remoteAddress)

\* what fs.readFileSync and JSON.parse give for update-status.json: its state, or
\* "torn" when the text does not parse.  scripts/self-update.js rewrites the file
\* in place with fs.writeFileSync, from another process and without a lock, so a
\* read made while a self-update process is alive may see a truncated file
ReadFile(torn) == IF torn THEN "torn" ELSE statusFile
CanRead(torn) == torn => children > 0

\* readUpdateApplyStatus: the state it returns ...
ReadState(read) == IF read \in { "missing", "torn" } THEN "idle" ELSE read

\* ... and what it leaves in updateInFlight
ReadFlag(read, flag) == IF read \in { "torn", "running" } THEN flag ELSE FALSE

\* the catch block of POST /update-apply before the status was initialized
Rejected(code, env) ==
  /\ updateInFlight' = FALSE
  /\ lastOp' = Resp("updateApply", NoId, code, env, FALSE)
  /\ UNCHANGED <<statusFile, children, data, now>>

\* mutant: the request is not tested for a loopback address
UpdateApplyFromAnywhere(request, torn) ==
  /\ UpdaterStep
  /\ CanRead(torn)
  /\ LET env == [request EXCEPT !.read = ReadFile(torn)] IN
     IF ~isSelfUpdateEnabled(env) THEN Rejected(403, env)
     ELSE LET existingStatus == ReadState(env.read)
              inFlight == ReadFlag(env.read, updateInFlight)
          IN IF inFlight \/ existingStatus = "running"
             THEN Rejected(409, env)
             ELSE IF ~env.launchAgent THEN Rejected(400, env)
             ELSE IF env.gitStatus = "error" THEN Rejected(500, env)
             ELSE IF env.gitStatus = "dirty" THEN Rejected(409, env)
             ELSE IF ~env.version THEN Rejected(500, env)
             ELSE IF ~env.script
             THEN \* the status was initialized: the catch block overwrites it
                  /\ statusFile' = "failed"
                  /\ updateInFlight' = FALSE
                  /\ lastOp' = Resp("updateApply", NoId, 500, env, TRUE)
                  /\ UNCHANGED <<children, data, now>>
             ELSE /\ statusFile' = "running"
                  /\ children' = children + 1
                  /\ updateInFlight' = TRUE
                  /\ lastOp' = Resp("updateApply", NoId, 202, env, TRUE)
                  /\ UNCHANGED <<data, now>>

\* POST /api/update-apply; env holds what the handler reads from its environment:
\* the flag, the addresses of the request, the status file as read, whether the
\* LaunchAgent plist exists, the outcome of git status --porcelain, and whether
\* package.json and scripts/self-update.js can be read; it is kept in the record
\* of the request
UpdateApply(request, torn) ==
  /\ UpdaterStep
  /\ CanRead(torn)
  /\ LET env == [request EXCEPT !.read = ReadFile(torn)] IN
     IF ~isSelfUpdateEnabled(env) THEN Rejected(403, env)
     ELSE IF ~isLocalRequest(env) THEN Rejected(403, env)
     ELSE LET existingStatus == ReadState(env.read)
              inFlight == ReadFlag(env.read, updateInFlight)
          IN IF inFlight \/ existingStatus = "running"
             THEN Rejected(409, env)
             ELSE IF ~env.launchAgent THEN Rejected(400, env)
             ELSE IF env.gitStatus = "error" THEN Rejected(500, env)
             ELSE IF env.gitStatus = "dirty" THEN Rejected(409, env)
             ELSE IF ~env.version THEN Rejected(500, env)
             ELSE IF ~env.script
             THEN \* the status was initialized: the catch block overwrites it
                  /\ statusFile' = "failed"
                  /\ updateInFlight' = FALSE
                  /\ lastOp' = Resp("updateApply", NoId, 500, env, TRUE)
                  /\ UNCHANGED <<children, data, now>>
             ELSE /\ statusFile' = "running"
                  /\ children' = children + 1
                  /\ updateInFlight' = TRUE
                  /\ lastOp' = Resp("updateApply", NoId, 202, env, TRUE)
                  /\ UNCHANGED <<data, now>>

\* GET /api/update-apply-status
UpdateApplyStatus(torn) ==
  /\ UpdaterStep
  /\ CanRead(torn)
  /\ /\ updateInFlight' = ReadFlag(ReadFile(torn), updateInFlight)
     /\ lastOp' = Resp("updateApplyStatus", NoId, 200, [state |-> ReadState(ReadFile(torn))], FALSE)
     /\ UNCHANGED <<statusFile, children, data, now>>

\* scripts/self-update.js: setStep writes a running status
ChildSetStep ==
  /\ UpdaterStep
  /\ /\ children > 0
     /\ statusFile' = "running"
     /\ lastOp' = Resp("setStep", NoId, 0, NoField, FALSE)
     /\ UNCHANGED <<updateInFlight, children, data, now>>

\* scripts/self-update.js: markSucceeded or markFailed, and the process ends
ChildExit(outcome) ==
  /\ UpdaterStep
  /\ /\ children > 0
     /\ statusFile' = outcome
     /\ children' = children - 1
     /\ lastOp' = Resp("childExit", NoId, 0, NoField, FALSE)
     /\ UNCHANGED <<updateInFlight, data, now>>

\* the server process starts again (launchctl kickstart -k): the module is loaded
\* anew
ServerRestart ==
  /\ UpdaterStep
  /\ /\ updateInFlight' = FALSE
     /\ lastOp' = Resp("restart", NoId, 0, NoField, FALSE)
     /\ UNCHANGED <<statusFile, children, data, now>>

\* ---- scripts/self-update.js, one run ----
\* script.pc is the statement the process is at ("spawned" before the first one,
\* "exited" after the last), script.state the fields state, step and message of
\* its state object, script.written every content writeStatus has written, in
\* order.  A message is the step it announces, "error" for the message of a thrown
\* error and "done" for the message of markSucceeded.
Commands5 == <<"fetching", "pulling", "installing-dependencies", "building", "restarting">>

\* the step after a step of the try block, "completed" after the last
NextCommand(step) ==
  LET i == CHOOSE k \in DOMAIN Commands5 : Commands5[k] = step
  IN IF i = Len(Commands5) THEN "completed" ELSE Commands5[i + 1]

\* setStep, markFailed and markSucceeded assign the state object; each is followed
\* by writeStatus(), which the steps below record in script.written and statusFile
setStep(st, step) == [st EXCEPT !.state = "running", !.step = step, !.message = step]
markFailed(st) == [st EXCEPT !.state = "failed", !.message = "error"]
markSucceeded(st) == [st EXCEPT !.state = "succeeded", !.step = "completed", !.message = "done"]

\* the statements before the first command: the usage check, the state object,
\* readLocalVersion when --from-version was not passed, and the first writeStatus
ScriptBegin(args, versionOk) ==
  /\ ScriptStep
  /\ script.pc = "spawned"
  /\ lastOp' = Resp("script", NoId, 0, args, FALSE)
  /\ UNCHANGED <<updateInFlight, data, now>>
  /\ IF ~args.statusFile \/ ~args.operationId
     THEN /\ script' = [script EXCEPT !.pc = "exited"]
          /\ children' = children - 1
          /\ UNCHANGED statusFile
     ELSE LET state == [state |-> "running", step |-> "starting", message |-> "starting"]
          IN IF ~args.fromVersion /\ ~versionOk
             THEN /\ statusFile' = "failed"
                  /\ script' = [pc |-> "exited", state |-> markFailed(state),
                                written |-> Append(script.written, markFailed(state))]
                  /\ children' = children - 1
             ELSE /\ statusFile' = "running"
                  /\ script' = [pc |-> Commands5[1], state |-> state,
                                written |-> Append(script.written, state)]
                  /\ UNCHANGED children

\* mutant: a failed command is recorded and the run goes on with the next command
ScriptRunGoingOn(ok, after) ==
  /\ ScriptStep
  /\ script.pc \in { Commands5[k] : k \in DOMAIN Commands5 }
  /\ lastOp' = Resp("script", NoId, 0, NoField, FALSE)
  /\ UNCHANGED <<updateInFlight, data, now>>
  /\ LET step == script.pc
         running == setStep(script.state, step)
         last == IF ~ok THEN markFailed(running)
                 ELSE IF step = "restarting" THEN markSucceeded(running) ELSE running
         writes == IF last = running THEN <<running>> ELSE <<running, last>>
     IN /\ statusFile' = last.state
        /\ script' = [pc |-> IF NextCommand(step) = "completed" THEN "exited" ELSE NextCommand(step),
                      state |-> last,
                      written |-> script.written \o writes]
        /\ children' = IF NextCommand(step) = "completed" THEN children - 1 ELSE children

\* one command of the try block: setStep, runCommand, and what follows it before
\* the next setStep (after "building": readLocalVersion and the user id; after
\* "restarting": markSucceeded); a throw is caught by markFailed and process.exit(1)
ScriptRun(ok, after) ==
  /\ ScriptStep
  /\ script.pc \in { Commands5[k] : k \in DOMAIN Commands5 }
  /\ lastOp' = Resp("script", NoId, 0, NoField, FALSE)
  /\ UNCHANGED <<updateInFlight, data, now>>
  /\ LET step == script.pc
         running == setStep(script.state, step)
         thrown == ~ok \/ (step = "building" /\ ~after)
         last == IF thrown THEN markFailed(running)
                 ELSE IF step = "restarting" THEN markSucceeded(running) ELSE running
         writes == IF last = running THEN <<running>> ELSE <<running, last>>
     IN /\ statusFile' = last.state
        /\ script' = [pc |-> IF thrown THEN "exited"
                             ELSE IF NextCommand(step) = "completed" THEN "exited"
                             ELSE NextCommand(step),
                      state |-> last,
                      written |-> script.written \o writes]
        /\ children' = IF script'.pc = "exited" THEN children - 1 ELSE children

\* ---- hooks/useTasks.ts ----
\* hook.tab is the tab of the last render ("none" before the first), hook.tasks and
\* hook.loading the two states of the hook, hook.pending the calls of
\* api.fetchTasks that have not settled, oldest first.  The server answers a fetch
\* at the moment it settles.

\* the component renders with a new tab: reload is built anew and the effect calls it
HookRender(tab) ==
  /\ HookStep
  /\ tab # hook.tab
  /\ Len(hook.pending) < MaxInFlight
  /\ hook' = [hook EXCEPT !.tab = tab,
                          !.loading = TRUE,
                          !.pending = Append(@, [tab |-> tab, silent |-> FALSE])]
  /\ lastOp' = Resp("render", NoId, 0, NoField, FALSE)
  /\ UNCHANGED <<data, now>>

\* the interval fires while the page is visible: reload(true)
HookInterval ==
  /\ HookStep
  /\ hook.tab # "none"
  /\ Len(hook.pending) < MaxInFlight
  /\ hook' = [hook EXCEPT !.pending = Append(@, [tab |-> hook.tab, silent |-> TRUE])]
  /\ lastOp' = Resp("interval", NoId, 0, NoField, FALSE)
  /\ UNCHANGED <<data, now>>

\* the k-th pending fetch settles: GET /tasks answers, setTasks(data), and
\* setLoading(false) unless the reload was silent
HookSettle(k) ==
  /\ HookStep
  /\ k \in DOMAIN hook.pending
  /\ LET fetch == hook.pending[k]
         bs == autoUnblock(blockers, tasks, now)
         st == clearInvalidFocus(settings, tasks, bs, now)
     IN /\ blockers' = bs
        /\ settings' = st
        /\ hook' = [hook EXCEPT !.tasks = filtered(fetch.tab, tasks, bs, st, now),
                                !.loading = IF fetch.silent THEN @ ELSE FALSE,
                                !.pending = Splice(@, k)]
        /\ lastOp' = Resp("settle", NoId, 200, NoField, bs # blockers \/ st # settings)
  /\ UNCHANGED <<tasks, nextTaskId, nextBlockerId, now>>

\* ---- the clock ----
Tick(d) ==
  /\ Step
  /\ /\ now + d <= MaxNow
     /\ now' = now + d
     /\ lastOp' = Resp("tick", NoId, 0, NoField, FALSE)
     /\ UNCHANGED data

\* ---- direct calls of task-logic.ts, as its unit tests make them ----

\* autoUnblock(data): resolves blockers in place and returns whether it did
AutoUnblockCall ==
  /\ Step
  /\ /\ blockers' = autoUnblock(blockers, tasks, now)
     /\ lastOp' = Resp("autoUnblock", NoId, 0, NoField, autoUnblockChanged(blockers, tasks, now))
     /\ UNCHANGED <<tasks, settings, nextTaskId, nextBlockerId, now>>

\* isStale(task.updatedAt, settings), as the task list calls it for each row; the
\* answer is kept in the record of the call
IsStaleCall(id) ==
  /\ Step
  /\ /\ HasTask(id)
     /\ lastOp' = Resp("isStale", id, 0,
                       [stale |-> isStale(FindTask(id).updatedAt, settings, now)], FALSE)
     /\ UNCHANGED <<data, now>>

\* Date.now() half an hour later
HalfHourTick ==
  /\ Step
  /\ /\ now + HOUR \div 2 <= StaleNow
     /\ now' = now + HOUR \div 2
     /\ lastOp' = Resp("halfHourTick", NoId, 0, NoField, FALSE)
     /\ UNCHANGED data

\* getVacationNudgeRecommendation({ tasks, settings }) with nowMs = Date.now(); the
\* recommendation, or null, is kept in the record of the call
NudgeCall ==
  /\ Step
  /\ /\ lastOp' = Resp("nudge", NoId, 0, getVacationNudgeRecommendation(tasks, settings, now), FALSE)
     /\ UNCHANGED <<data, now>>

\* Date.now() d minutes later
NudgeTick(d) ==
  /\ Step
  /\ /\ now + d <= MaxNudgeNow
     /\ now' = now + d
     /\ lastOp' = Resp("nudgeTick", NoId, 0, NoField, FALSE)
     /\ UNCHANGED data

\* ---- requests the model sends ----
TaskIdInputs == 1 .. MaxTaskId
BlockerIdInputs == 1 .. MaxBlockerId
TickSteps == {15}

CreateBodies ==
  { [title |-> Str(<<" ", "a">>), priority |-> "P1"],
    [title |-> Str(<<"a">>)],
    [title |-> Str(<<>>), priority |-> "P1"] }

UpdateBodies ==
  { NoField,
    [title |-> Num(<<"1">>)],
    [priority |-> ""],
    [isArchived |-> TRUE],
    [isArchived |-> FALSE] }

HideBodies == { [durationMinutes |-> 15], [durationMinutes |-> 10] }

BlockerBodies ==
  { [blockedByTaskId |-> 1], [blockedByTaskId |-> 2], [blockedUntilDate |-> 15] }

SettingsBodies == { [focusedTaskId |-> 2] }

Tabs == {"tasks", "backlog", "ideas", "blocked", "hidden", "completed", "archive"}

Commands ==
  \/ \E body \in CreateBodies : CreateTask(body)
  \/ \E id \in TaskIdInputs, body \in UpdateBodies : UpdateTask(id, body)
  \/ \E id \in TaskIdInputs : CompleteTask(id)
  \/ \E id \in TaskIdInputs : UncompleteTask(id)
  \/ \E id \in TaskIdInputs, body \in HideBodies : HideTask(id, body)
  \/ \E id \in TaskIdInputs : UnhideTask(id)
  \/ \E id \in TaskIdInputs : FocusTask(id)
  \/ ClearFocus
  \/ \E id \in TaskIdInputs : DeleteTask(id)
  \/ \E id \in TaskIdInputs, body \in BlockerBodies : AddBlocker(id, body)
  \/ \E id \in BlockerIdInputs : RemoveBlocker(id)

Next ==
  \/ Commands
  \/ \E body \in SettingsBodies : PutSettings(body)
  \/ \E tab \in Tabs : GetTasks(tab)
  \/ \E d \in TickSteps : Tick(d)

Spec == Init /\ [][Next]_vars

\* the commands of section 4.4 and the clock, without settings writes and queries
NextCommands ==
  \/ Commands
  \/ \E d \in TickSteps : Tick(d)

SpecCommands == Init /\ [][NextCommands]_vars

\* create and update with every kind of title, status and priority
TitleInputs ==
  { NoField } \cup
  { "title" :> v : v \in { Num(<<"1">>), Str(<<>>), Str(<<" ">>), Str(<<" ", "a", " ">>) } }
PriorityInputs == { NoField } \cup { "priority" :> v : v \in { "", Null, "P0", "P2", "P9" } }
StatusInputs == { NoField } \cup { "status" :> v : v \in { Str(<<"s", " ">>), Num(<<"1">>) } }

CreateInputBodies ==
  { t @@ p : t \in TitleInputs, p \in { NoField, "priority" :> "", "priority" :> "P9" } }
    \cup { ("title" :> Str(<<"a">>)) @@ st : st \in StatusInputs }
UpdateInputBodies == TitleInputs \cup PriorityInputs \cup StatusInputs

NextInput ==
  \/ \E body \in CreateInputBodies : CreateTask(body)
  \/ \E id \in TaskIdInputs, body \in UpdateInputBodies : UpdateTask(id, body)
  \/ \E id \in TaskIdInputs : DeleteTask(id)
  \/ \E d \in TickSteps : Tick(d)

SpecInput == Init /\ [][NextInput]_vars

\* test fixtures: a task and a blocker with the given fields, the rest default
makeTask(overrides) ==
  overrides @@
  [ title |-> <<"a">>, status |-> Str(<<>>), priority |-> "P1", createdAt |-> 0,
    updatedAt |-> 0, completedAt |-> NoTime, isArchived |-> FALSE, hiddenUntilAt |-> NoTime ]

makeBlocker(overrides) ==
  overrides @@
  [ taskId |-> 1, blockedByTaskId |-> NoId, blockedUntilDate |-> NoTime, resolved |-> FALSE ]

\* stores for autoUnblock: task 1 open or completed, task 2 absent, open or
\* completed, and up to two blockers on task 1 with every combination of a date
\* before, at or after the clock, a blocking task, and the resolved flag
UnblockDates == { NoTime, 0, 15, 30 }
UnblockCompleted == { NoTime, 0 }
UnblockTasks ==
  { <<makeTask([id |-> 1, completedAt |-> c])>> : c \in UnblockCompleted } \cup
  { <<makeTask([id |-> 1, completedAt |-> NoTime]), makeTask([id |-> 2, completedAt |-> c])>> :
      c \in UnblockCompleted }
UnblockBlockers(id) ==
  { makeBlocker([id |-> id, blockedByTaskId |-> bt, blockedUntilDate |-> d, resolved |-> r]) :
      bt \in { NoId, 2 }, d \in UnblockDates, r \in BOOLEAN }

InitUnblock ==
  /\ tasks \in UnblockTasks
  /\ blockers \in { <<>> } \cup { <<b>> : b \in UnblockBlockers(1) }
                  \cup { <<b1, b2>> : b1 \in UnblockBlockers(1), b2 \in UnblockBlockers(2) }
  /\ settings = defaultSettings
  /\ nextTaskId = Len(tasks) + 1
  /\ nextBlockerId = Len(blockers) + 1
  /\ now = 15
  /\ lastOp = Resp("init", NoId, 0, NoField, FALSE)
  /\ steps = 0
  /\ NoUpdate
  /\ NoFiles
  /\ NoScript
  /\ NoHook

NextUnblock ==
  \/ AutoUnblockCall
  \/ \E id \in TaskIdInputs : CompleteTask(id)
  \/ \E d \in TickSteps : Tick(d)

SpecUnblock == InitUnblock /\ [][NextUnblock]_vars

\* stores for the views: three open tasks created at 0, 5 and 10, each with its
\* own priority, the first one either never edited or edited at 15, and topN 1 or 2
ViewPriorities == { "P0", "P1", Null }
ViewTask(id, p, created, edited) ==
  makeTask([id |-> id, priority |-> p, createdAt |-> created,
            updatedAt |-> IF edited THEN 15 ELSE created])
ViewTasks ==
  { <<ViewTask(1, p1, 0, e1), ViewTask(2, p2, 5, FALSE), ViewTask(3, p3, 10, FALSE)>> :
      p1 \in ViewPriorities, p2 \in ViewPriorities, p3 \in { "P1", Null }, e1 \in BOOLEAN }
ViewTopN == { 1, 2 }

InitViews ==
  /\ tasks \in ViewTasks
  /\ blockers = <<>>
  /\ settings \in { [defaultSettings EXCEPT !.topN = n] : n \in ViewTopN }
  /\ nextTaskId = Len(tasks) + 1
  /\ nextBlockerId = 1
  /\ now = 15
  /\ lastOp = Resp("init", NoId, 0, NoField, FALSE)
  /\ steps = 3
  /\ NoUpdate
  /\ NoFiles
  /\ NoScript
  /\ NoHook

ViewUpdateBodies ==
  { NoField,
    [title |-> Str(<<"b">>)],
    [status |-> Str(<<"s">>)],
    [priority |-> "P0"],
    [isArchived |-> TRUE] }

NextViews ==
  \/ \E id \in TaskIdInputs, body \in ViewUpdateBodies : UpdateTask(id, body)
  \/ \E id \in TaskIdInputs : CompleteTask(id)
  \/ \E id \in TaskIdInputs : HideTask(id, [durationMinutes |-> 15])
  \/ \E id \in TaskIdInputs : AddBlocker(id, [blockedUntilDate |-> 30])
  \/ \E tab \in Tabs : GetTasks(tab)
  \/ \E d \in TickSteps : Tick(d)

SpecViews == InitViews /\ [][NextViews]_vars

\* the same stores under the requests that move a task between views: a priority
\* removed, archiving, completion, hiding, a dated blocker, queries and the clock
ListingUpdateBodies == { [priority |-> ""], [isArchived |-> TRUE] }

NextListing ==
  \/ \E id \in TaskIdInputs, body \in ListingUpdateBodies : UpdateTask(id, body)
  \/ \E id \in TaskIdInputs : CompleteTask(id)
  \/ \E id \in TaskIdInputs : HideTask(id, [durationMinutes |-> 15])
  \/ \E id \in TaskIdInputs : AddBlocker(id, [blockedUntilDate |-> 30])
  \/ \E tab \in Tabs : GetTasks(tab)
  \/ \E d \in TickSteps : Tick(d)

SpecListing == InitViews /\ [][NextListing]_vars

\* stores for isStale: the clock at four hours, two tasks last updated around one,
\* two and three hours ago, a threshold of one or two hours, an offset of zero or
\* one hour that is absent or expires just before, exactly at, or just after now
StaleUpdatedAt == { 59, 60, 61, 119, 120, 121, 179, 180, 181, 240 }
StaleSettings ==
  { [defaultSettings EXCEPT !.staleThresholdHours = h,
                            !.oneTimeOffsetHours = o,
                            !.oneTimeOffsetExpiresAt = e] :
      h \in { 1, 2 }, o \in { 0, 1 }, e \in { NoTime, StaleNow - 1, StaleNow, StaleNow + 1 } }

InitStale ==
  /\ tasks \in { <<makeTask([id |-> 1, updatedAt |-> u1]), makeTask([id |-> 2, updatedAt |-> u2])>> :
                   u1 \in StaleUpdatedAt, u2 \in StaleUpdatedAt }
  /\ blockers = <<>>
  /\ settings \in StaleSettings
  /\ nextTaskId = Len(tasks) + 1
  /\ nextBlockerId = 1
  /\ now = StaleNow
  /\ lastOp = Resp("init", NoId, 0, NoField, FALSE)
  /\ steps = 3
  /\ NoUpdate
  /\ NoFiles
  /\ NoScript
  /\ NoHook

NextStale ==
  \/ \E id \in TaskIdInputs : IsStaleCall(id)
  \/ \E id \in TaskIdInputs : UpdateTask(id, NoField)

SpecStale == InitStale /\ [][NextStale]_vars

\* stores for isStale over time: the clock starts at half an hour and advances in
\* half hours, two tasks last updated at 0 or just now, a threshold of one or two
\* hours, an offset of minus one, zero or one hour that is absent or expires at
\* one and a half, two or two and a half hours
StaleTimeSettings ==
  { [defaultSettings EXCEPT !.staleThresholdHours = h,
                            !.oneTimeOffsetHours = o,
                            !.oneTimeOffsetExpiresAt = e] :
      h \in { 1, 2 }, o \in { 0 - 1, 0, 1 }, e \in { NoTime, 90, 120, 150 } }

InitStaleTime ==
  /\ tasks \in { <<makeTask([id |-> 1, updatedAt |-> u1]), makeTask([id |-> 2, updatedAt |-> u2])>> :
                   u1 \in { 0, 30 }, u2 \in { 0, 30 } }
  /\ blockers = <<>>
  /\ settings \in StaleTimeSettings
  /\ nextTaskId = Len(tasks) + 1
  /\ nextBlockerId = 1
  /\ now = 30
  /\ lastOp = Resp("init", NoId, 0, NoField, FALSE)
  /\ steps = 0
  /\ NoUpdate
  /\ NoFiles
  /\ NoScript
  /\ NoHook

NextStaleTime ==
  \/ \E id \in TaskIdInputs : IsStaleCall(id)
  \/ HalfHourTick

SpecStaleTime == InitStaleTime /\ [][NextStaleTime]_vars

\* stores for the vacation nudge: the clock starts at 50 hours; task 1 was last
\* updated 50 hours ago or a minute more than 24 hours ago, task 2 exactly 24
\* hours ago or later; the one-time offset is absent or expires now or in a minute
NudgeSettings ==
  { [defaultSettings EXCEPT !.oneTimeOffsetHours = 24, !.oneTimeOffsetExpiresAt = e] :
      e \in { NoTime, 50 * HOUR, 50 * HOUR + 1 } }

NudgeTicks == { 1, 24 * HOUR }

\* the settings write that records the anchor the popup was shown for
NudgeSettingsBodies ==
  { [vacationPromptLastShownForUpdatedAt |-> u] : u \in { 26 * HOUR, 2000 } }

InitNudge ==
  /\ tasks \in { <<makeTask([id |-> 1, updatedAt |-> u1]), makeTask([id |-> 2, updatedAt |-> u2])>> :
                   u1 \in { 0, 26 * HOUR - 1 }, u2 \in { 26 * HOUR, 2000 } }
  /\ blockers = <<>>
  /\ settings \in NudgeSettings
  /\ nextTaskId = Len(tasks) + 1
  /\ nextBlockerId = 1
  /\ now = 50 * HOUR
  /\ lastOp = Resp("init", NoId, 0, NoField, FALSE)
  /\ steps = 2
  /\ NoUpdate
  /\ NoFiles
  /\ NoScript
  /\ NoHook

NextNudge ==
  \/ NudgeCall
  \/ \E d \in NudgeTicks : NudgeTick(d)
  \/ \E body \in NudgeSettingsBodies : PutSettings(body)
  \/ \E id \in TaskIdInputs : UpdateTask(id, NoField)
  \/ \E id \in TaskIdInputs : CompleteTask(id)
  \/ \E id \in TaskIdInputs : DeleteTask(id)

SpecNudge == InitNudge /\ [][NextNudge]_vars

\* settings writes of one numeric field: a value in its range, zero and a negative
\* number
RangeSettingsBodies ==
  { [staleThresholdHours |-> v] : v \in { 0 - 1, 0, 24 } } \cup
  { [topN |-> v] : v \in { 0 - 1, 0, 1 } } \cup
  { [oneTimeOffsetHours |-> v] : v \in { 0 - 1, 0, 24 } }

NextSettings ==
  \/ \E body \in RangeSettingsBodies : PutSettings(body)
  \/ GetSettings

SpecSettings == Init /\ [][NextSettings]_vars

\* the environments of POST /update-apply
UpdateEnvs ==
  { [ STRADL_ENABLE_SELF_UPDATE |-> f, ip |-> a, remoteAddress |-> r, read |-> "missing",
      launchAgent |-> l, gitStatus |-> g, version |-> v, script |-> s ] :
      f \in { "true", "1" }, a \in { "127.0.0.1", "10.0.0.5" }, r \in { "::1", "10.0.0.5" },
      l \in BOOLEAN, g \in { "clean", "dirty", "error" }, v \in BOOLEAN, s \in BOOLEAN }

\* a status file left by an earlier run of the server, or none
InitUpdate ==
  /\ tasks = <<>>
  /\ blockers = <<>>
  /\ settings = defaultSettings
  /\ nextTaskId = 1
  /\ nextBlockerId = 1
  /\ now = 0
  /\ lastOp = Resp("init", NoId, 0, NoField, FALSE)
  /\ steps = 1
  /\ updateInFlight = FALSE
  /\ statusFile \in { "missing", "running", "succeeded" }
  /\ children = 0
  /\ NoFiles
  /\ NoScript
  /\ NoHook

NextUpdate ==
  \/ \E request \in UpdateEnvs, torn \in BOOLEAN : UpdateApply(request, torn)
  \/ \E torn \in BOOLEAN : UpdateApplyStatus(torn)
  \/ ChildSetStep
  \/ \E outcome \in { "succeeded", "failed" } : ChildExit(outcome)
  \/ ServerRestart

SpecUpdate == InitUpdate /\ [][NextUpdate]_vars

\* file systems for the data file: each of the three files is missing or holds
\* its own store, with or without isDeleted tasks; the legacy files are one or
\* two time units old
StorageFiles ==
  { [f \in Paths |-> CASE f = "appSupport" -> a [] f = "projectData" -> p [] OTHER -> v] :
      a \in { Missing } \cup { [content |-> "appSupport", isDeleted |-> d, mtime |-> 2] : d \in BOOLEAN },
      p \in { Missing } \cup { [content |-> "projectData", isDeleted |-> d, mtime |-> m] :
                                 d \in BOOLEAN, m \in { 1, 2 } },
      v \in { Missing } \cup { [content |-> "serverData", isDeleted |-> d, mtime |-> m] :
                                 d \in BOOLEAN, m \in { 1, 2 } } }

StorageEnvs == { [STRADL_DATA_DIR |-> d] : d \in { "", "serverData" } }
Platforms == { "darwin", "linux" }

InitStorage ==
  /\ tasks = <<>>
  /\ blockers = <<>>
  /\ settings = defaultSettings
  /\ nextTaskId = 1
  /\ nextBlockerId = 1
  /\ now = 0
  /\ lastOp = Resp("init", NoId, 0, NoField, FALSE)
  /\ steps = 3
  /\ NoUpdate
  /\ files \in StorageFiles
  /\ NoScript
  /\ NoHook

NextStorage ==
  \/ \E env \in StorageEnvs, platform \in Platforms : ReadData(env, platform)
  \/ \E env \in StorageEnvs, platform \in Platforms : WriteData(env, platform)

SpecStorage == InitStorage /\ [][NextStorage]_vars

\* one self-update process has just been started, by POST /update-apply (which
\* wrote a running status and set the flag) or by hand, while the browser polls
\* the status route
ScriptArgs ==
  { [statusFile |-> s, operationId |-> o, fromVersion |-> f] :
      s \in BOOLEAN, o \in BOOLEAN, f \in BOOLEAN }

InitScript ==
  /\ tasks = <<>>
  /\ blockers = <<>>
  /\ settings = defaultSettings
  /\ nextTaskId = 1
  /\ nextBlockerId = 1
  /\ now = 0
  /\ lastOp = Resp("init", NoId, 0, NoField, FALSE)
  /\ steps = 3
  /\ statusFile \in { "missing", "running", "failed" }
  /\ updateInFlight = (statusFile = "running")
  /\ children = 1
  /\ NoFiles
  /\ script = [pc |-> "spawned", state |-> [state |-> "none", step |-> "none", message |-> "none"],
               written |-> <<>>]
  /\ NoHook

ScriptNext ==
  \/ \E args \in ScriptArgs, versionOk \in BOOLEAN : ScriptBegin(args, versionOk)
  \/ \E ok \in BOOLEAN, after \in BOOLEAN : ScriptRun(ok, after)

NextScript ==
  \/ ScriptNext
  \/ \E torn \in BOOLEAN : UpdateApplyStatus(torn)

\* the operating system keeps running the process: a statement that can be
\* executed is executed
SpecScript == InitScript /\ [][NextScript]_vars /\ WF_vars(ScriptNext)

\* the page is opened on a store of three tasks; nothing but the hook talks to the
\* server
InitHook ==
  /\ tasks \in ViewTasks
  /\ blockers = <<>>
  /\ settings = [defaultSettings EXCEPT !.topN = 1]
  /\ nextTaskId = Len(tasks) + 1
  /\ nextBlockerId = 1
  /\ now = 15
  /\ lastOp = Resp("init", NoId, 0, NoField, FALSE)
  /\ steps = 1
  /\ NoUpdate
  /\ NoFiles
  /\ NoScript
  /\ NoHook

NextHook ==
  \/ \E tab \in Tabs : HookRender(tab)
  \/ HookInterval
  \/ \E k \in 1 .. MaxInFlight : HookSettle(k)

SpecHook == InitHook /\ [][NextHook]_vars

\* ======================= properties =======================

TaskIds == { tasks[i].id : i \in DOMAIN tasks }

\* the focused task, if any, exists and is not archived, not completed, has no
\* unresolved blocker and is not hidden at the current time
FocusedTaskEligible ==
  \/ settings.focusedTaskId = NoId
  \/ \E i \in DOMAIN tasks :
       /\ tasks[i].id = settings.focusedTaskId
       /\ ~tasks[i].isArchived
       /\ tasks[i].completedAt = NoTime
       /\ ~\E j \in DOMAIN blockers : blockers[j].taskId = tasks[i].id /\ ~blockers[j].resolved
       /\ ~(tasks[i].hiddenUntilAt # NoTime /\ tasks[i].hiddenUntilAt > now)

\* C1: after any sequence of commands, focusedTaskId is null or the id of an
\* existing task that is eligible for focus (not archived, not completed, not
\* blocked, not currently hidden).
C1_FocusAlwaysEligible == FocusedTaskEligible

\* no unresolved blocker has a date at-or-before now or an existing, completed
\* blocking task
NoOverdueBlocker ==
  \A j \in DOMAIN blockers :
    ~blockers[j].resolved =>
      /\ ~(blockers[j].blockedUntilDate # NoTime /\ blockers[j].blockedUntilDate <= now)
      /\ ~\E i \in DOMAIN tasks :
            tasks[i].id = blockers[j].blockedByTaskId /\ tasks[i].completedAt # NoTime

\* C2: the state a classification query returns from holds no blocker that should
\* have auto-resolved and no focus reference to a missing or ineligible task.
C2_QueryStateNormalized ==
  lastOp.op = "query" => (NoOverdueBlocker /\ FocusedTaskEligible)

\* a query that had to write: it resolved a blocker whose date is exactly now
C2_Witness ==
  /\ lastOp.op = "query"
  /\ lastOp.wrote
  /\ \E j \in DOMAIN blockers :
       /\ blockers[j].resolved
       /\ blockers[j].blockedByTaskId = NoId
       /\ blockers[j].blockedUntilDate = now

\* C3: once a blocker is resolved it stays resolved for as long as it exists,
\* whatever operation runs (uncomplete and unarchive included).
C3_ResolvedMonotonic ==
  [][\A i \in DOMAIN blockers :
       blockers[i].resolved =>
         \A j \in DOMAIN blockers' :
           blockers'[j].id = blockers[i].id => blockers'[j].resolved]_vars

\* the blocking task was completed and then reopened; its dependent blocker is
\* still resolved
C3_Witness ==
  /\ lastOp.op = "uncomplete"
  /\ lastOp.code = 200
  /\ \E j \in DOMAIN blockers :
       /\ blockers[j].blockedByTaskId = lastOp.id
       /\ blockers[j].blockedUntilDate = NoTime
       /\ blockers[j].resolved

\* C4: a successful delete(id) removes task id and exactly the blockers with
\* taskId = id or blockedByTaskId = id, keeps every other task and blocker as it
\* was, and clears focusedTaskId iff it was id.
C4_DeleteFrame ==
  [][(lastOp'.op = "delete" /\ lastOp'.code = 204) =>
       LET id == lastOp'.id IN
         /\ id \in TaskIds
         /\ tasks' = SelectSeq(tasks, LAMBDA t : t.id # id)
         /\ blockers' = SelectSeq(blockers, LAMBDA b : b.taskId # id /\ b.blockedByTaskId # id)
         /\ settings' = [settings EXCEPT !.focusedTaskId = IF @ = id THEN NoId ELSE @]
         /\ UNCHANGED <<nextTaskId, nextBlockerId>>]_vars

\* a delete that removed a blocker and kept the other task and its blocker
C4_Witness ==
  /\ lastOp.op = "delete"
  /\ lastOp.code = 204
  /\ Len(blockers) = 1
  /\ nextBlockerId = 3
  /\ Len(tasks) = 1

ArchiveRequest(op) == op.op = "update" /\ Has(op.req, "isArchived") /\ op.req.isArchived
UnarchiveRequest(op) == op.op = "update" /\ Has(op.req, "isArchived") /\ ~op.req.isArchived

\* C5: complete(id) and update(id, isArchived=true) resolve exactly the blockers
\* with blockedByTaskId = id and leave the other blockers as they were;
\* update(id, isArchived=false) changes no blocker, not focusedTaskId and not the
\* task's hiddenUntilAt.
C5_CascadeFrame ==
  [][/\ (lastOp'.code = 200 /\ (lastOp'.op = "complete" \/ ArchiveRequest(lastOp'))) =>
          /\ DOMAIN blockers' = DOMAIN blockers
          /\ \A j \in DOMAIN blockers :
               blockers'[j] = IF blockers[j].blockedByTaskId = lastOp'.id
                              THEN [blockers[j] EXCEPT !.resolved = TRUE]
                              ELSE blockers[j]
     /\ (lastOp'.code = 200 /\ UnarchiveRequest(lastOp')) =>
          /\ blockers' = blockers
          /\ settings'.focusedTaskId = settings.focusedTaskId
          /\ \A i \in DOMAIN tasks :
               tasks[i].id = lastOp'.id => tasks'[i].hiddenUntilAt = tasks[i].hiddenUntilAt
    ]_vars

\* archiving resolved the dependent blocker and left an unrelated one unresolved
C5_Witness ==
  /\ lastOp.code = 200
  /\ ArchiveRequest(lastOp)
  /\ \E j, k \in DOMAIN blockers :
       /\ blockers[j].blockedByTaskId = lastOp.id
       /\ blockers[j].resolved
       /\ blockers[k].blockedByTaskId # lastOp.id
       /\ ~blockers[k].resolved

\* C6: a command that answers 400 (ValidationError) or 404 (NotFoundError) leaves
\* tasks, blockers, settings, nextTaskId and nextBlockerId as they were.
C6_ErrorsAtomic ==
  [][lastOp'.code \in {400, 404} => UNCHANGED data]_vars

\* focus refused for a task that exists but is blocked, while another focus is set
C6_Witness ==
  /\ lastOp.op = "focus"
  /\ lastOp.code = 400
  /\ settings.focusedTaskId # NoId
  /\ settings.focusedTaskId # lastOp.id

\* the title of a request is missing, not a string, empty or only whitespace
BlankTitle(body) ==
  \/ ~Has(body, "title")
  \/ body.title.type # "string"
  \/ \A k \in DOMAIN body.title.chars : body.title.chars[k] = " "

\* C7: create answers 400 and creates nothing when the title is missing, not a
\* string, empty or only whitespace; a created task's title is the trimmed input
\* and is not empty.
C7_CreateRejectsBlankTitle ==
  lastOp.op = "create" =>
    /\ BlankTitle(lastOp.req) => lastOp.code = 400
    /\ lastOp.code = 201 =>
         /\ FindTask(lastOp.id).title = Trim(lastOp.req.title.chars)
         /\ FindTask(lastOp.id).title # <<>>

\* C8: every stored task's priority is P0, P1, P2 or null.
C8_PriorityInEnum ==
  \A i \in DOMAIN tasks : tasks[i].priority \in {"P0", "P1", "P2", Null}

Succeeded(op, names) == op.op \in names /\ op.code = 200

\* C9 as claimed: after a successful update, complete, uncomplete, hide or unhide
\* the task's updatedAt is the current time.
C9_EveryMutationTouches ==
  Succeeded(lastOp, {"update", "complete", "uncomplete", "hide", "unhide"}) =>
    FindTask(lastOp.id).updatedAt = now

\* C9 as amended: a successful update (also one without fields), complete or
\* uncomplete sets the task's updatedAt to the current time; a successful hide or
\* unhide leaves the task's updatedAt as it was.
C9_UpdateCompleteTouch ==
  [][/\ Succeeded(lastOp', {"update", "complete", "uncomplete"}) =>
          \A i \in DOMAIN tasks' : tasks'[i].id = lastOp'.id => tasks'[i].updatedAt = now'
     /\ Succeeded(lastOp', {"hide", "unhide"}) =>
          \A i \in DOMAIN tasks : tasks[i].id = lastOp'.id => tasks'[i].updatedAt = tasks[i].updatedAt
    ]_vars

\* an update without fields, later than the task's creation, refreshed updatedAt
C9_Witness ==
  /\ Succeeded(lastOp, {"update"})
  /\ lastOp.req = NoField
  /\ FindTask(lastOp.id).updatedAt = now
  /\ FindTask(lastOp.id).createdAt < now

\* C10: no operation changes the createdAt or the id of an existing task.
C10_CreatedAtFixed ==
  [][/\ \A i \in DOMAIN tasks : \A j \in DOMAIN tasks' :
          tasks'[j].id = tasks[i].id => tasks'[j].createdAt = tasks[i].createdAt
     /\ lastOp'.op # "delete" =>
          \A i \in DOMAIN tasks : i \in DOMAIN tasks' /\ tasks'[i].id = tasks[i].id
    ]_vars

\* a task edited, completed or archived after its creation still has its createdAt
C10_Witness ==
  /\ Succeeded(lastOp, {"update", "complete", "uncomplete"})
  /\ FindTask(lastOp.id).createdAt < FindTask(lastOp.id).updatedAt

BlockerIds == { blockers[i].id : i \in DOMAIN blockers }

\* C11: task ids are never reused. The counter nextTaskId never decreases and
\* stays above every stored id; it grows only when a create appends one task whose
\* id is the old counter value, so the new id is above every id assigned before,
\* whatever was deleted since. The same holds for blockers and nextBlockerId.
C11_IdsNeverReused ==
  [][/\ nextTaskId' >= nextTaskId
     /\ \A id \in TaskIds' : id < nextTaskId'
     /\ Len(tasks') > Len(tasks) =>
          /\ tasks' = Append(tasks, tasks'[Len(tasks')])
          /\ tasks'[Len(tasks')].id = nextTaskId
          /\ nextTaskId' = nextTaskId + 1
          /\ \A id \in TaskIds : id < tasks'[Len(tasks')].id
     /\ Len(tasks') <= Len(tasks) => nextTaskId' = nextTaskId
     /\ nextBlockerId' >= nextBlockerId
     /\ \A id \in BlockerIds' : id < nextBlockerId'
     /\ Len(blockers') > Len(blockers) =>
          /\ blockers' = Append(blockers, blockers'[Len(blockers')])
          /\ blockers'[Len(blockers')].id = nextBlockerId
          /\ nextBlockerId' = nextBlockerId + 1
          /\ \A id \in BlockerIds : id < blockers'[Len(blockers')].id
     /\ Len(blockers') <= Len(blockers) => nextBlockerId' = nextBlockerId
    ]_vars

\* a task created after the only earlier task was deleted got the next id, not the
\* freed one, and a blocker added after the earlier one was removed likewise
C11_Witness ==
  /\ lastOp.op = "addBlocker" /\ lastOp.code = 201
  /\ TaskIds = {2}
  /\ BlockerIds = {2}

\* the two conditions of the blocker resolution pass, read from the store
DateDue(b) == b.blockedUntilDate # NoTime /\ b.blockedUntilDate <= now
BlockingTaskDone(b) ==
  /\ b.blockedByTaskId # NoId
  /\ \E j \in DOMAIN tasks : tasks[j].id = b.blockedByTaskId /\ tasks[j].completedAt # NoTime

\* C12: a call of autoUnblock sets resolved on exactly the unresolved blockers
\* whose date is at or before now or whose blocking task exists and is completed,
\* changes no other blocker and no task, and returns true exactly when some
\* blocker changed.
C12_AutoUnblockExact ==
  [][lastOp'.op = "autoUnblock" =>
       /\ tasks' = tasks
       /\ DOMAIN blockers' = DOMAIN blockers
       /\ \A i \in DOMAIN blockers :
            blockers'[i] =
              IF ~blockers[i].resolved /\ (DateDue(blockers[i]) \/ BlockingTaskDone(blockers[i]))
              THEN [blockers[i] EXCEPT !.resolved = TRUE]
              ELSE blockers[i]
       /\ lastOp'.wrote <=> (blockers' # blockers)
    ]_vars

\* a call returned true having resolved one blocker on its date alone while
\* leaving an unresolved one, whose blocking task is absent or open, as it was
C12_Witness ==
  /\ lastOp.op = "autoUnblock" /\ lastOp.wrote
  /\ Len(blockers) = 2
  /\ blockers[1].resolved /\ blockers[1].blockedUntilDate = now /\ ~BlockingTaskDone(blockers[1])
  /\ ~blockers[2].resolved /\ blockers[2].blockedByTaskId = 2

\* C13: a call of autoUnblock that directly follows another call, with no change
\* of time, tasks or blockers in between, returns false and changes nothing.
C13_AutoUnblockIdempotent ==
  [][lastOp.op = "autoUnblock" /\ lastOp'.op = "autoUnblock" =>
       /\ ~lastOp'.wrote
       /\ <<tasks', blockers', settings'>> = <<tasks, blockers, settings>>
    ]_vars

\* a call, the second step from a drawn store, returned false and left one due
\* blocker resolved and another blocker unresolved
C13_Witness ==
  /\ lastOp.op = "autoUnblock" /\ ~lastOp.wrote
  /\ steps = 2
  /\ \E i \in DOMAIN blockers : blockers[i].resolved /\ DateDue(blockers[i])
  /\ \E i \in DOMAIN blockers : ~blockers[i].resolved

\* ---- the views of the current store ----
Filtered(tab) == filtered(tab, tasks, blockers, settings, now)
IdsOf(view) == { view[i].id : i \in DOMAIN view }
Eligible(t) ==
  /\ t.priority # Null
  /\ ~t.isArchived
  /\ t.completedAt = NoTime
  /\ ~\E i \in DOMAIN blockers : blockers[i].taskId = t.id /\ ~blockers[i].resolved
  /\ t.hiddenUntilAt = NoTime \/ t.hiddenUntilAt <= now
EligibleIds == { tasks[i].id : i \in { j \in DOMAIN tasks : Eligible(tasks[j]) } }
Tier(t) == CASE t.priority = "P0" -> 0 [] t.priority = "P1" -> 1 [] t.priority = "P2" -> 2 [] OTHER -> 99
RankBefore(x, y) == Tier(x) < Tier(y) \/ (Tier(x) = Tier(y) /\ x.createdAt < y.createdAt)
Smaller(a, b) == IF a < b THEN a ELSE b

\* C14: with topN >= 1 the active and the backlog view are disjoint, together hold
\* exactly the eligible tasks, the active view holds min(topN, number of eligible
\* tasks) of them, and no backlog task ranks before an active task.
C14_ActiveBacklogSplit ==
  settings.topN >= 1 =>
    LET active == Filtered("tasks")
        backlog == Filtered("backlog")
    IN /\ IdsOf(active) \cap IdsOf(backlog) = {}
       /\ IdsOf(active) \cup IdsOf(backlog) = EligibleIds
       /\ Len(active) = Smaller(settings.topN, Cardinality(EligibleIds))
       /\ Cardinality(IdsOf(active)) = Len(active)
       /\ Cardinality(IdsOf(backlog)) = Len(backlog)
       /\ \A i \in DOMAIN active : \A j \in DOMAIN backlog :
            ~RankBefore(backlog[j], active[i])

\* a query found two tasks in the active view and one in the backlog, the backlog
\* task being older than an active one that has a higher priority, next to an
\* ineligible task
C14_Witness ==
  /\ lastOp.op = "query"
  /\ Len(Filtered("tasks")) = settings.topN
  /\ Len(Filtered("backlog")) = 1
  /\ \E i \in DOMAIN Filtered("tasks") :
       Filtered("tasks")[i].createdAt > Filtered("backlog")[1].createdAt
  /\ Cardinality(EligibleIds) < Len(tasks)

UpdateBefore(x, y) == Tier(x) < Tier(y) \/ (Tier(x) = Tier(y) /\ x.updatedAt < y.updatedAt)
InRankOrder(view) ==
  \A i \in DOMAIN view : \A j \in DOMAIN view : i < j => ~RankBefore(view[j], view[i])
InUpdateOrder(view) ==
  \A i \in DOMAIN view : \A j \in DOMAIN view : i < j => ~UpdateBefore(view[j], view[i])

\* C15 as claimed: the active and the backlog view list their tasks by priority
\* tier and, within a tier, by createdAt ascending, whatever their updatedAt.
C15_ViewsInRankOrder ==
  LET active == Filtered("tasks")
      backlog == Filtered("backlog")
  IN InRankOrder(active) /\ InRankOrder(backlog)

\* C15 as amended: rank order decides which tasks each of the two views holds;
\* inside each view the tasks are listed by priority tier and, within a tier, by
\* updatedAt ascending.
C15_ViewsOrderedByUpdate ==
  LET active == Filtered("tasks")
      backlog == Filtered("backlog")
  IN /\ InUpdateOrder(active)
     /\ InUpdateOrder(backlog)
     /\ \A i \in DOMAIN active : \A j \in DOMAIN backlog : ~RankBefore(backlog[j], active[i])

\* a query found two backlog tasks of one priority, the later created one listed
\* first because it was updated earlier
C15_Witness ==
  /\ lastOp.op = "query"
  /\ Len(Filtered("backlog")) = 2
  /\ Filtered("backlog")[1].priority = Filtered("backlog")[2].priority
  /\ Filtered("backlog")[1].createdAt > Filtered("backlog")[2].createdAt
  /\ Filtered("backlog")[1].updatedAt < Filtered("backlog")[2].updatedAt

\* C16: the list GET /tasks?tab=tasks returns holds eligible tasks only, ordered
\* by priority tier ascending and, within a tier, by updatedAt ascending.
C16_TasksTabByUpdatedAt ==
  lastOp.op = "query" =>
    LET view == Filtered("tasks")
    IN /\ IdsOf(view) \subseteq EligibleIds
       /\ \A i \in 1 .. (Len(view) - 1) :
            \/ Tier(view[i]) < Tier(view[i + 1])
            \/ Tier(view[i]) = Tier(view[i + 1]) /\ view[i].updatedAt <= view[i + 1].updatedAt

\* a query listed two active tasks of one priority with the least recently updated
\* first, although it was created later
C16_Witness ==
  /\ lastOp.op = "query"
  /\ Len(Filtered("tasks")) = 2
  /\ Filtered("tasks")[1].priority = Filtered("tasks")[2].priority
  /\ Filtered("tasks")[1].updatedAt < Filtered("tasks")[2].updatedAt
  /\ Filtered("tasks")[1].id > Filtered("tasks")[2].id

Ids(view) == [i \in DOMAIN view |-> view[i].id]
OnlyTextEdited(op) == Succeeded(op, {"update"}) /\ DOMAIN op.req \subseteq {"title", "status"}

\* C17: a successful update that sends a title, a status or nothing (so only
\* title, status and updatedAt change) leaves the active view and the backlog view
\* holding the same tasks as before and leaves the ranking in the same order.
C17_TextEditKeepsSplit ==
  [][OnlyTextEdited(lastOp') =>
       /\ IdsOf(tasksTab(tasks', blockers', settings', now')) =
            IdsOf(tasksTab(tasks, blockers, settings, now))
       /\ IdsOf(backlogTab(tasks', blockers', settings', now')) =
            IdsOf(backlogTab(tasks, blockers, settings, now))
       /\ Ids(getPrioritizedTasks(tasks', blockers', now')) =
            Ids(getPrioritizedTasks(tasks, blockers, now))
    ]_vars

\* a title or status edit made the only active task more recently updated than a
\* backlog task of the same priority, and it is still the active one
C17_Witness ==
  /\ OnlyTextEdited(lastOp)
  /\ lastOp.req # NoField
  /\ settings.topN = 1
  /\ IdsOf(Filtered("tasks")) = {lastOp.id}
  /\ \E j \in DOMAIN Filtered("backlog") :
       /\ Filtered("backlog")[j].priority = FindTask(lastOp.id).priority
       /\ Filtered("backlog")[j].updatedAt < FindTask(lastOp.id).updatedAt

\* for each view, the ids it lists
ViewIds == [tab \in Tabs |-> IdsOf(Filtered(tab))]
ViewsHolding(listed, id) == { tab \in Tabs : id \in listed[tab] }

\* C18: an archived task is listed by the archive view and by no other view; a
\* completed task that is not archived is listed by the completed view and by no
\* other view; so neither is in the active, backlog, ideas, blocked or hidden view.
C18_ArchivedCompletedViews ==
  LET listed == ViewIds
  IN \A i \in DOMAIN tasks :
       /\ tasks[i].isArchived => ViewsHolding(listed, tasks[i].id) = {"archive"}
       /\ ~tasks[i].isArchived /\ tasks[i].completedAt # NoTime =>
            ViewsHolding(listed, tasks[i].id) = {"completed"}

\* an archived task without priority, listed by the archive view, next to a
\* completed task with a priority that is not archived, listed by the completed view
C18_Witness ==
  /\ \E i \in DOMAIN tasks :
       /\ tasks[i].isArchived
       /\ tasks[i].priority = Null
       /\ tasks[i].id \in IdsOf(Filtered("archive"))
  /\ \E i \in DOMAIN tasks :
       /\ ~tasks[i].isArchived /\ tasks[i].completedAt # NoTime
       /\ tasks[i].priority # Null
       /\ tasks[i].id \in IdsOf(Filtered("completed"))

\* C19 as claimed: a task without priority is listed by no view other than ideas.
C19_IdeaOnlyInIdeas ==
  LET listed == ViewIds
  IN \A i \in DOMAIN tasks :
       tasks[i].priority = Null => ViewsHolding(listed, tasks[i].id) \subseteq {"ideas"}

\* C19 as amended: a task without priority is never in the active or the backlog
\* view; it is in the ideas view exactly while it is not archived, not completed
\* and not hidden, also while it is blocked; it is in the blocked, hidden,
\* completed or archive view when it is in that state.
C19_IdeaNeverRanked ==
  LET listed == ViewIds
  IN \A i \in DOMAIN tasks :
    tasks[i].priority = Null =>
      LET t == tasks[i]
          open == ~t.isArchived /\ t.completedAt = NoTime
          hiddenNow == t.hiddenUntilAt # NoTime /\ t.hiddenUntilAt > now
          blocked == \E k \in DOMAIN blockers : blockers[k].taskId = t.id /\ ~blockers[k].resolved
          held == ViewsHolding(listed, t.id)
      IN /\ "tasks" \notin held /\ "backlog" \notin held
         /\ "ideas" \in held <=> open /\ ~hiddenNow
         /\ "blocked" \in held <=> open /\ blocked
         /\ "hidden" \in held <=> open /\ ~blocked /\ hiddenNow
         /\ "completed" \in held <=> ~t.isArchived /\ t.completedAt # NoTime
         /\ "archive" \in held <=> t.isArchived

\* a query ran while a blocked task without priority is listed by both the ideas
\* and the blocked view
C19_Witness ==
  /\ lastOp.op = "query"
  /\ \E i \in DOMAIN tasks :
       /\ tasks[i].priority = Null
       /\ ViewsHolding(ViewIds, tasks[i].id) = {"ideas", "blocked"}

\* C20: isStale answers true exactly when the time since updatedAt is more than
\* staleThresholdHours plus oneTimeOffsetHours hours while oneTimeOffsetExpiresAt
\* is set and not before now, and more than staleThresholdHours hours otherwise.
C20_IsStaleThreshold ==
  lastOp.op = "isStale" =>
    LET elapsedMinutes == now - FindTask(lastOp.id).updatedAt
        offsetApplies == settings.oneTimeOffsetExpiresAt # NoTime
                           /\ ~(settings.oneTimeOffsetExpiresAt < now)
    IN lastOp.req.stale <=>
         IF offsetApplies
         THEN elapsedMinutes > settings.staleThresholdHours * HOUR + settings.oneTimeOffsetHours * HOUR
         ELSE elapsedMinutes > settings.staleThresholdHours * HOUR

\* a task past the threshold alone was found not stale because the offset, which
\* expires exactly now, still applies, the elapsed time being exactly the sum
C20_Witness ==
  /\ lastOp.op = "isStale" /\ ~lastOp.req.stale
  /\ settings.oneTimeOffsetExpiresAt = now
  /\ settings.oneTimeOffsetHours > 0
  /\ now - FindTask(lastOp.id).updatedAt =
       (settings.staleThresholdHours + settings.oneTimeOffsetHours) * HOUR

\* C21: with updatedAt and settings unchanged and oneTimeOffsetHours >= 0, a task
\* that isStale finds stale is found stale at every later time, also once
\* oneTimeOffsetExpiresAt has passed.
C21_StaleStaysStale ==
  [][now' > now /\ settings' = settings /\ settings.oneTimeOffsetHours >= 0 =>
       \A i \in DOMAIN tasks :
         i \in DOMAIN tasks' /\ tasks'[i].updatedAt = tasks[i].updatedAt
           /\ isStale(tasks[i].updatedAt, settings, now)
         => isStale(tasks'[i].updatedAt, settings', now')
    ]_vars

\* a task was stale half an hour ago while a positive offset still applied, and is
\* stale now that the offset has expired
C21_Witness ==
  /\ lastOp.op = "halfHourTick"
  /\ settings.oneTimeOffsetHours > 0
  /\ settings.oneTimeOffsetExpiresAt # NoTime
  /\ settings.oneTimeOffsetExpiresAt >= now - HOUR \div 2
  /\ settings.oneTimeOffsetExpiresAt < now
  /\ \E i \in DOMAIN tasks :
       /\ isStale(tasks[i].updatedAt, settings, now - HOUR \div 2)
       /\ isStale(tasks[i].updatedAt, settings, now)

\* ---- the vacation nudge ----
Anchor == mostRecentUpdatedAt(tasks)

\* Math.floor(inactivityHours / 24), from the minutes of inactivity
WholeDays(minutes) ==
  CHOOSE d \in 0 .. minutes : d * 24 * HOUR <= minutes /\ minutes < (d + 1) * 24 * HOUR

\* C24: a call of getVacationNudgeRecommendation returns null when no task is
\* active (not completed, not archived) or when at most 24 hours have passed since
\* the anchor; a recommendation it returns has suggestedDays equal to
\* max(1, floor(inactivityHours / 24)), which is at least 1
C24_NudgeNullAndDays ==
  lastOp.op = "nudge" =>
    /\ activeTasks(tasks) = <<>> => ~lastOp.req.present
    /\ activeTasks(tasks) # <<>> /\ now - Anchor <= 24 * HOUR => ~lastOp.req.present
    /\ lastOp.req.present =>
         /\ lastOp.req.inactivityMinutes = now - Anchor
         /\ lastOp.req.suggestedDays >= 1
         /\ \/ lastOp.req.suggestedDays = WholeDays(now - Anchor)
            \/ lastOp.req.suggestedDays = 1 /\ WholeDays(now - Anchor) < 1

\* a call 50 hours after the anchor that recommends 2 days
C24_Witness ==
  /\ lastOp.op = "nudge"
  /\ lastOp.req.present
  /\ now - Anchor = 50 * HOUR
  /\ lastOp.req.suggestedDays = 2

\* an active task of the new store that is new or whose updatedAt was rewritten
ActiveTaskTouched ==
  \E i \in DOMAIN tasks' :
    /\ tasks'[i].completedAt = NoTime /\ ~tasks'[i].isArchived
    /\ ~\E j \in DOMAIN tasks :
          tasks[j].id = tasks'[i].id /\ tasks[j].updatedAt = tasks'[i].updatedAt

\* C22: once vacationPromptLastShownForUpdatedAt holds the current anchor,
\* getVacationNudgeRecommendation returns null after every step that leaves the
\* setting alone and touches no active task
C22_NudgeOncePerStreak ==
  [][ /\ activeTasks(tasks) # <<>>
      /\ settings.vacationPromptLastShownForUpdatedAt = Anchor
      /\ settings'.vacationPromptLastShownForUpdatedAt = settings.vacationPromptLastShownForUpdatedAt
      /\ ~ActiveTaskTouched
      => ~getVacationNudgeRecommendation(tasks', settings', now').present
    ]_vars

\* C23: a call of getVacationNudgeRecommendation returns null whenever
\* oneTimeOffsetExpiresAt is set and at or after now, the expiry rule of isStale
C23_NudgeNullWhileOffsetActive ==
  lastOp.op = "nudge" =>
    (settings.oneTimeOffsetExpiresAt # NoTime /\ settings.oneTimeOffsetExpiresAt >= now
       => ~lastOp.req.present)

\* ---- hide and focus ----
\* the task with this id is archived, completed, blocked or hidden now
NotActive(id) ==
  \E i \in DOMAIN tasks :
    /\ tasks[i].id = id
    /\ \/ tasks[i].isArchived
       \/ tasks[i].completedAt # NoTime
       \/ \E j \in DOMAIN blockers : blockers[j].taskId = id /\ ~blockers[j].resolved
       \/ tasks[i].hiddenUntilAt # NoTime /\ tasks[i].hiddenUntilAt > now

\* C25: a hide request for an existing task succeeds exactly when the duration is
\* one of 15, 30, 60, 120, 240 and the task has a priority and is not archived,
\* completed, blocked or hidden now; it then sets hiddenUntilAt of that task to
\* now plus the duration and clears focusedTaskId if it is this task, changing
\* nothing else; otherwise it answers 400 and changes nothing
C25_HideValidated ==
  [][ lastOp'.op = "hide" /\ lastOp'.id \in TaskIds =>
        LET id == lastOp'.id
            body == lastOp'.req
            allowed == /\ "durationMinutes" \in DOMAIN body
                       /\ body.durationMinutes \in {15, 30, 60, 120, 240}
                       /\ \E i \in DOMAIN tasks : tasks[i].id = id /\ tasks[i].priority # Null
                       /\ ~NotActive(id)
        IN IF allowed
           THEN /\ lastOp'.code = 200
                /\ DOMAIN tasks' = DOMAIN tasks
                /\ \A i \in DOMAIN tasks :
                     tasks'[i] = IF tasks[i].id = id
                                 THEN [tasks[i] EXCEPT !.hiddenUntilAt = now + body.durationMinutes]
                                 ELSE tasks[i]
                /\ settings' = [settings EXCEPT !.focusedTaskId =
                                  IF settings.focusedTaskId = id THEN NoId ELSE @]
                /\ blockers' = blockers
           ELSE /\ lastOp'.code = 400
                /\ data' = data
    ]_vars

\* a hide of 15 minutes just answered 200 for a task that is now hidden until a
\* quarter of an hour from now, and no task is focused
C25_Witness ==
  /\ lastOp.op = "hide" /\ lastOp.code = 200
  /\ lastOp.req.durationMinutes = 15
  /\ \E i \in DOMAIN tasks : tasks[i].id = lastOp.id /\ tasks[i].hiddenUntilAt = now + 15
  /\ settings.focusedTaskId = NoId

\* C26: a focus request for an existing task that is archived, completed, blocked
\* or hidden now answers 400 and changes nothing; for any other existing task it
\* answers 200 and sets focusedTaskId to that task whatever it held before,
\* changing nothing else
C26_FocusValidated ==
  [][ lastOp'.op = "focus" /\ lastOp'.id \in TaskIds =>
        IF NotActive(lastOp'.id)
        THEN /\ lastOp'.code = 400
             /\ data' = data
        ELSE /\ lastOp'.code = 200
             /\ settings' = [settings EXCEPT !.focusedTaskId = lastOp'.id]
             /\ tasks' = tasks /\ blockers' = blockers
    ]_vars

\* a focus of task 1 just answered 200 while a second task that can be focused
\* is in the store
C26_Witness ==
  /\ lastOp.op = "focus" /\ lastOp.code = 200 /\ lastOp.id = 1
  /\ settings.focusedTaskId = 1
  /\ 2 \in TaskIds /\ ~NotActive(2)

\* ---- blockers that name a missing task ----
\* the blocker names a blocking task that is not in the store, and no date
Dangling(b) ==
  b.blockedByTaskId # NoId /\ b.blockedByTaskId \notin TaskIds /\ b.blockedUntilDate = NoTime

\* C27: a blocker whose blockedByTaskId names no stored task is not resolved by
\* the resolution pass while the reference stays missing, and a task whose
\* unresolved blockers are all of that kind is not listed by the blocked view and
\* is not kept out of the active and backlog views
C27_DanglingBlockerInert ==
  lastOp.op = "query" =>
    /\ \A j \in DOMAIN blockers : Dangling(blockers[j]) => ~DateDue(blockers[j]) /\ ~BlockingTaskDone(blockers[j])
    /\ \A i \in DOMAIN tasks :
         (\A j \in DOMAIN blockers :
            blockers[j].taskId = tasks[i].id /\ ~blockers[j].resolved => Dangling(blockers[j]))
         => /\ tasks[i].id \notin IdsOf(Filtered("blocked"))
            /\ tasks[i].priority # Null /\ ~tasks[i].isArchived /\ tasks[i].completedAt = NoTime
               /\ ~isTaskHiddenNow(tasks[i], now)
               => tasks[i].id \in IdsOf(Filtered("tasks")) \cup IdsOf(Filtered("backlog"))

\* ---- the ranges of the settings ----
\* C28: in every state, as stored and as a read returns them, staleThresholdHours
\* is a positive number, topN a positive integer and oneTimeOffsetHours a
\* non-negative number
C28_SettingsInRange ==
  LET st == normalizeSettings(settings)
  IN /\ st.staleThresholdHours > 0
     /\ st.topN > 0
     /\ st.oneTimeOffsetHours >= 0

\* ---- the self-update ----
\* C29: while the update status is running, in the module flag or in the status
\* file, a POST /update-apply that is enabled and local is answered 409, starts
\* no process and leaves the status file as it is
C29_SingleUpdateInFlight ==
  [][ /\ lastOp'.op = "updateApply"
      /\ updateInFlight \/ statusFile = "running"
      /\ isSelfUpdateEnabled(lastOp'.req) /\ isLocalRequest(lastOp'.req)
      => /\ lastOp'.code = 409
         /\ children' = children
         /\ statusFile' = statusFile
    ]_vars

\* the four preflight conditions of a POST /update-apply, from its record
PreflightHolds(env) ==
  /\ env.STRADL_ENABLE_SELF_UPDATE = "true"
  /\ env.ip \in { "127.0.0.1", "::1", "::ffff:127.0.0.1" }
       \/ env.remoteAddress \in { "127.0.0.1", "::1", "::ffff:127.0.0.1" }
  /\ env.launchAgent
  /\ env.gitStatus = "clean"

\* C30 as stated: a POST /update-apply starts a process or writes a running
\* status only if the four conditions hold; when one fails, it starts no process,
\* leaves the status file unchanged and answers 403, 403, 400 or 409 for the
\* first condition that fails
C30_PreflightCodes ==
  [][ lastOp'.op = "updateApply" =>
        LET env == lastOp'.req
        IN /\ children' # children \/ statusFile' # statusFile => PreflightHolds(env)
           /\ ~PreflightHolds(env) /\ env.gitStatus # "error" =>
                /\ children' = children /\ statusFile' = statusFile
                /\ lastOp'.code =
                     IF env.STRADL_ENABLE_SELF_UPDATE # "true" THEN 403
                     ELSE IF env.ip = "10.0.0.5" /\ env.remoteAddress = "10.0.0.5" THEN 403
                     ELSE IF ~env.launchAgent THEN 400
                     ELSE 409
    ]_vars

\* C30, amended: a POST /update-apply starts a process or writes the status file only if
\* the flag is exactly "true", the request is from a loopback address, the
\* LaunchAgent plist exists and the working tree is clean.  Otherwise it is
\* rejected, starts no process and leaves the status file unchanged; the answer is
\* 403 when disabled, 403 when not local, and, when no update is found running,
\* 400 when the plist is missing and else 409 when the tree is dirty
C30_PreflightGuardsSpawn ==
  [][ lastOp'.op = "updateApply" =>
        LET env == lastOp'.req
            foundRunning == ReadFlag(env.read, updateInFlight) \/ ReadState(env.read) = "running"
        IN /\ children' # children \/ statusFile' # statusFile \/ lastOp'.wrote
                \/ lastOp'.code = 202 => PreflightHolds(env)
           /\ ~PreflightHolds(env) =>
                /\ lastOp'.code \in { 403, 400, 409, 500 }
                /\ children' = children /\ statusFile' = statusFile /\ ~lastOp'.wrote
                /\ env.STRADL_ENABLE_SELF_UPDATE # "true" => lastOp'.code = 403
                /\ env.STRADL_ENABLE_SELF_UPDATE = "true"
                     /\ env.ip = "10.0.0.5" /\ env.remoteAddress = "10.0.0.5" => lastOp'.code = 403
                /\ env.STRADL_ENABLE_SELF_UPDATE = "true"
                     /\ (env.ip # "10.0.0.5" \/ env.remoteAddress # "10.0.0.5") /\ ~foundRunning =>
                     lastOp'.code = IF ~env.launchAgent THEN 400
                                    ELSE IF env.gitStatus = "dirty" THEN 409 ELSE 500
    ]_vars

\* a request with the flag set, from a loopback socket, with the plist and a
\* clean tree was just answered 202: one process runs and the status is running
C30_Witness ==
  /\ lastOp.op = "updateApply" /\ lastOp.code = 202
  /\ PreflightHolds(lastOp.req)
  /\ children = 1 /\ statusFile = "running" /\ updateInFlight

\* ---- the data file and the legacy files ----
\* the legacy files, other than the data file itself, that exist
LegacyOf(dataFile) ==
  { f \in { "projectData", "serverData" } \ { dataFile } : files[f] # Missing }

\* one of them that no other one is newer than
IsNewestLegacy(f, dataFile) ==
  f \in LegacyOf(dataFile) /\ \A g \in LegacyOf(dataFile) : files[g].mtime <= files[f].mtime

DueBlockers ==
  { j \in DOMAIN blockers :
      ~blockers[j].resolved /\ (DateDue(blockers[j]) \/ BlockingTaskDone(blockers[j])) }

\* the focus the normalization pass is about to clear: its task is missing,
\* archived, completed, hidden now, or still blocked after the resolution pass
FocusToClear ==
  /\ settings.focusedTaskId # NoId
  /\ \/ settings.focusedTaskId \notin TaskIds
     \/ \E i \in DOMAIN tasks :
          /\ tasks[i].id = settings.focusedTaskId
          /\ \/ tasks[i].isArchived
             \/ tasks[i].completedAt # NoTime
             \/ tasks[i].hiddenUntilAt # NoTime /\ tasks[i].hiddenUntilAt > now
             \/ \E j \in DOMAIN blockers \ DueBlockers :
                  blockers[j].taskId = tasks[i].id /\ ~blockers[j].resolved

\* C32: a query writes the store exactly when the resolution pass has a blocker
\* to resolve or the normalization pass a focus to clear; it never changes a
\* task or a counter, and otherwise changes nothing at all; a query that directly
\* follows a query, at the same time, writes nothing and changes nothing
C32_QueryWritesIffChanged ==
  [][ lastOp'.op = "query" =>
        /\ lastOp'.wrote <=> (DueBlockers # {} \/ FocusToClear)
        /\ tasks' = tasks /\ nextTaskId' = nextTaskId /\ nextBlockerId' = nextBlockerId
        /\ ~lastOp'.wrote => data' = data
        /\ lastOp.op = "query" /\ now' = now => ~lastOp'.wrote /\ data' = data
    ]_vars

\* a query just answered without writing, on a store that holds a blocker with a
\* date that an earlier query resolved
C32_Witness ==
  /\ lastOp.op = "query" /\ ~lastOp.wrote
  /\ \E j \in DOMAIN blockers :
       /\ blockers[j].resolved
       /\ blockers[j].blockedByTaskId = NoId
       /\ blockers[j].blockedUntilDate # NoTime

\* ---- hiding expires by time ----
\* a task that was hidden and has since not been archived, completed or blocked
HideStands(task) ==
  /\ task.hiddenUntilAt # NoTime
  /\ ~task.isArchived
  /\ task.completedAt = NoTime
  /\ \A j \in DOMAIN blockers : blockers[j].taskId = task.id => blockers[j].resolved

\* C33: a task hidden until t + d is listed by the hidden view and by neither the
\* active nor the backlog view at every time before t + d; from t + d on it is
\* absent from the hidden view and, when it has a priority, back in the active or
\* the backlog view, without an unhide request
C33_HideExpiresByTime ==
  \A i \in DOMAIN tasks :
    HideStands(tasks[i]) =>
      LET id == tasks[i].id
          shown == IdsOf(Filtered("tasks")) \cup IdsOf(Filtered("backlog"))
      IN IF now < tasks[i].hiddenUntilAt
         THEN id \in IdsOf(Filtered("hidden")) /\ id \notin shown
         ELSE /\ id \notin IdsOf(Filtered("hidden"))
              /\ tasks[i].priority # Null => id \in shown

\* the clock has just reached the end of a hide and the task is listed again
C33_Witness ==
  /\ lastOp.op = "tick"
  /\ \E i \in DOMAIN tasks :
       /\ HideStands(tasks[i])
       /\ now = tasks[i].hiddenUntilAt
       /\ tasks[i].id \in IdsOf(Filtered("tasks")) \cup IdsOf(Filtered("backlog"))

\* ---- self-reference and cycles of blockers ----
\* an unresolved blocker without a date that names its own task, or whose
\* blocking task is in turn held by an unresolved blocker naming this task
InCycle(b) ==
  /\ ~b.resolved
  /\ b.blockedUntilDate = NoTime
  /\ b.blockedByTaskId # NoId
  /\ \/ b.blockedByTaskId = b.taskId
     \/ \E k \in DOMAIN blockers :
          /\ ~blockers[k].resolved
          /\ blockers[k].taskId = b.blockedByTaskId
          /\ blockers[k].blockedByTaskId = b.taskId

\* a blocker for an existing task is stored as sent, whatever task it names
BlockerAccepted ==
  lastOp'.op = "addBlocker" /\ HasTask(lastOp'.id) =>
    /\ lastOp'.code = 201
    /\ Len(blockers') = Len(blockers) + 1
    /\ LET b == blockers'[Len(blockers')]
       IN /\ b.taskId = lastOp'.id
          /\ ~b.resolved
          /\ Has(lastOp'.req, "blockedByTaskId") => b.blockedByTaskId = lastOp'.req.blockedByTaskId

\* C34 as claimed: a blocker in a cycle is never resolved by a clock step or a
\* query. Violated when the blocking task is already completed:
\* the next query resolves the blocker.
C34_CycleNeverResolves ==
  [][ /\ BlockerAccepted
      /\ lastOp'.op \in { "tick", "query" } =>
           \A j \in DOMAIN blockers :
             InCycle(blockers[j]) => ~blockers'[j].resolved
    ]_vars

\* C34: addBlocker stores a blocker that names its own task or closes a cycle;
\* while the blocking task is not completed, no clock step and no query resolves
\* such a blocker, and its task stays out of the active and the backlog view
C34_OpenCycleNeverResolves ==
  [][ /\ BlockerAccepted
      /\ lastOp'.op \in { "tick", "query" } =>
           \A j \in DOMAIN blockers :
             InCycle(blockers[j]) /\ ~BlockingTaskDone(blockers[j]) =>
               /\ ~blockers'[j].resolved
               /\ blockers[j].taskId \notin
                    IdsOf(filtered("tasks", tasks', blockers', settings', now'))
                      \cup IdsOf(filtered("backlog", tasks', blockers', settings', now'))
    ]_vars

\* a query has just run on two tasks that block each other, and both blockers stand
C34_Witness ==
  /\ lastOp.op = "query"
  /\ \E j, k \in DOMAIN blockers :
       /\ InCycle(blockers[j]) /\ InCycle(blockers[k])
       /\ blockers[j].taskId # blockers[k].taskId
       /\ blockers[j].blockedByTaskId = blockers[k].taskId
       /\ ~BlockingTaskDone(blockers[j]) /\ ~BlockingTaskDone(blockers[k])

\* ---- archiving and dependents ----
\* an unresolved blocker whose blocking task exists and is archived
HeldByArchived(b) ==
  /\ ~b.resolved
  /\ \E i \in DOMAIN tasks : tasks[i].id = b.blockedByTaskId /\ tasks[i].isArchived

\* C35: after a query no blocker is left unresolved whose blocking task exists
\* and is archived, whether the blocker was added before or after the archiving.
\* Violated: a blocker added after its blocking task was archived stays
\* unresolved through every query.
C35_ArchivedNeverBlocks ==
  lastOp.op = "query" => \A j \in DOMAIN blockers : ~HeldByArchived(blockers[j])

\* ---- blockers belong to stored tasks ----
\* C36: every stored blocker is attached to a stored task; a request to add a
\* blocker is answered 404, and stores nothing, exactly when its task is unknown
C36_BlockerTaskExists ==
  /\ \A j \in DOMAIN blockers : blockers[j].taskId \in TaskIds
  /\ lastOp.op = "addBlocker" =>
       /\ lastOp.code = 404 <=> lastOp.id \notin TaskIds
       /\ lastOp.code = 404 => ~lastOp.wrote

\* a task with a blocker attached was deleted while another task and its blocker stay
C36_Witness ==
  /\ lastOp.op = "delete" /\ lastOp.code = 204
  /\ nextBlockerId = 3
  /\ Len(blockers) = 1

\* ---- every task is listed somewhere ----
\* the tasks some view lists
Listed == UNION { IdsOf(Filtered(tab)) : tab \in Tabs }

\* C37: with topN >= 1 every stored task is listed by at least one of the seven
\* views, whatever its priority, completion, archive flag, hide and blockers
C37_NoTaskInvisible ==
  settings.topN >= 1 => \A i \in DOMAIN tasks : tasks[i].id \in Listed

\* a task that is hidden and blocked at once is listed, and so is a task beyond
\* the end of the active view
C37_Witness ==
  /\ \E i \in DOMAIN tasks :
       /\ isTaskHiddenNow(tasks[i], now)
       /\ isTaskBlocked(tasks[i].id, blockers)
       /\ tasks[i].id \in Listed
  /\ Filtered("backlog") # <<>>

\* ---- a run of the self-update script ----
RunningSteps == <<"starting">> \o Commands5

\* the contents written so far: the running steps in order, from the first one,
\* then at most one terminal content, which is the last
WrittenInOrder ==
  LET w == script.written
      n == Len(w)
      r == IF n > 0 /\ w[n].state # "running" THEN n - 1 ELSE n
  IN /\ r <= Len(RunningSteps)
     /\ \A k \in 1 .. r :
          w[k].state = "running" /\ w[k].step = RunningSteps[k] /\ w[k].message = RunningSteps[k]
     /\ n > r =>
          \/ w[n].state = "succeeded" /\ r = Len(RunningSteps) /\ w[n].step = "completed"
          \/ /\ w[n].state = "failed" /\ w[n].message = "error"
             /\ w[n].step = (IF r = 0 THEN "starting" ELSE RunningSteps[r])

\* the process has ended and the last content it wrote is terminal
Terminated ==
  /\ script.pc = "exited"
  /\ script.written # <<>>
  /\ script.written[Len(script.written)].state \in { "succeeded", "failed" }
  /\ children = 0

\* C38: a run that was given its status file and operation id writes the running
\* steps in order and then exactly one terminal content, succeeded after the last
\* step or failed with the error message at the step that threw, and it ends
C38_RunTerminates ==
  /\ []WrittenInOrder
  /\ [][ /\ script.pc = "exited" => script' = script
         /\ script.pc = "spawned" /\ script'.pc = "exited" /\ script'.written = <<>> =>
              ~(lastOp'.req.statusFile /\ lastOp'.req.operationId)
       ]_vars
  /\ <>[](script.pc = "exited" /\ (script.written # <<>> => Terminated))

\* a run has gone through every step and ended with succeeded
C38_Witness ==
  /\ Terminated
  /\ Len(script.written) = 7
  /\ statusFile = "succeeded"

\* ---- the list the hook shows ----
\* C39: once every fetch has settled, the tasks state of the hook is the answer
\* for the tab that is selected.  Violated: the fetch of the earlier tab settles
\* after the fetch of the current tab and its answer replaces the list.
C39_HookShowsCurrentTab ==
  hook.tab # "none" /\ hook.pending = <<>> => hook.tasks = Filtered(hook.tab)
====
